---- MODULE Spec2Model ----
(***************************************************************************)
(* Verification model of the procedural world generator of the-oracle:     *)
(* the coordinate hash (src/util/hash.js), the biome weight blend          *)
(* (src/world/biomes.js) and the structure placement (src/world/objects.js *)
(* and its later revision temp_tail.js), the height and material field     *)
(* (src/world/terrain.js) and the chunk streaming (src/world/World.js,     *)
(* src/world/Chunk.js).                                                    *)
(*                                                                         *)
(* The generator is a set of pure functions.  Each of them is an operator  *)
(* here, and each specification draws the inputs of one of them from       *)
(* bounded sets and applies it.                                            *)
(***************************************************************************)
EXTENDS Integers, Sequences, FiniteSets, TLC

VARIABLES
    hq,      \* the hash sampling run: grid origin, points done, values seen
    tree,    \* one getTreeAt call: the column, the fields it reads, the result
    bio,     \* a walk of biome queries: the world, the position, the last mix
    fq,      \* one terrain field query: the function, its inputs, its result
    wd,      \* the streamed world: the chunk map, the chunks built and disposed
    pw,      \* the bounded plate: the creation queue, the chunks and their fades
    ck       \* one chunk: the stored fade, its surface mesh, the last request

vars == <<hq, tree, bio, fq, wd, pw, ck>>

(***************************************************************************)
(* JavaScript numbers.                                                     *)
(*                                                                         *)
(* hash2D mixes its inputs with Number arithmetic: every product and sum   *)
(* is an IEEE-754 double (53 significant bits, round to nearest, ties to   *)
(* even) and only the bitwise operators work on 32-bit integers.  The      *)
(* intermediate values reach 2^107, so they are kept as naturals of Limbs  *)
(* digits in base 2^15, least significant digit first, with a sign beside. *)
(***************************************************************************)
Base == 2^15
Limbs == 1..8

\* the digits of f as a tuple
Digits(f) == <<f[1], f[2], f[3], f[4], f[5], f[6], f[7], f[8]>>

\* the natural v < 2^31 as digits
BigOfNat(v) == Digits([i \in Limbs |-> IF i > 3 THEN 0 ELSE (v \div (Base^(i-1))) % Base])

BigAdd(a, b) ==
    LET c[i \in 0..8] == IF i = 0 THEN 0 ELSE (a[i] + b[i] + c[i-1]) \div Base
    IN  Digits([i \in Limbs |-> (a[i] + b[i] + c[i-1]) % Base])

\* a - b for a >= b
BigSub(a, b) ==
    LET w[i \in 0..8] == IF i = 0 THEN 0
                         ELSE IF a[i] + Base - b[i] - w[i-1] < Base THEN 1 ELSE 0
    IN  Digits([i \in Limbs |-> (a[i] + Base - b[i] - w[i-1]) % Base])

\* a * s for one digit s
BigMulSmall(a, s) ==
    LET c[i \in 0..8] == IF i = 0 THEN 0 ELSE (a[i] * s + c[i-1]) \div Base
    IN  Digits([i \in Limbs |-> (a[i] * s + c[i-1]) % Base])

\* a * Base^j
BigShift(a, j) == Digits([i \in Limbs |-> IF i <= j THEN 0 ELSE a[i-j]])

\* a * b where b has at most three digits (b <= 2^32)
BigMul(a, b) ==
    BigAdd(BigMulSmall(a, b[1]),
           BigAdd(BigShift(BigMulSmall(a, b[2]), 1),
                  BigShift(BigMulSmall(a, b[3]), 2)))

BigIsZero(a) == \A i \in Limbs : a[i] = 0

BigGeq(a, b) ==
    LET g[i \in 0..8] == IF i = 0 THEN TRUE
                         ELSE IF a[i] > b[i] THEN TRUE
                         ELSE IF a[i] < b[i] THEN FALSE
                         ELSE g[i-1]
    IN  g[8]

\* number of significant bits of the digit d > 0
DigitLen(d) == CHOOSE k \in 1..15 : 2^(k-1) <= d /\ d < 2^k

\* number of significant bits of a
BigLen(a) ==
    IF BigIsZero(a) THEN 0
    ELSE LET t == CHOOSE i \in Limbs : a[i] # 0 /\ \A j \in Limbs : j > i => a[j] = 0
         IN  15 * (t - 1) + DigitLen(a[t])

\* bit k of a, k = 0 the least significant
BigBit(a, k) == (a[(k \div 15) + 1] \div (2^(k % 15))) % 2

\* 2^k as digits
BigPow2(k) == Digits([i \in Limbs |-> IF i = (k \div 15) + 1 THEN 2^(k % 15) ELSE 0])

\* a with its bits below position s cleared
BigTrunc(a, s) ==
    Digits([i \in Limbs |-> IF 15 * i <= s THEN 0
                            ELSE IF 15 * (i - 1) >= s THEN a[i]
                            ELSE (a[i] \div (2^(s - 15 * (i - 1)))) * (2^(s - 15 * (i - 1)))])

\* the nearest double to the natural a: 53 significant bits, ties to even
Round53(a) ==
    LET len == BigLen(a)
        s   == len - 53
    IN  IF len <= 53 THEN a
        ELSE LET guard  == BigBit(a, s - 1)
                 sticky == \E k \in 0..(s - 2) : BigBit(a, k) = 1
                 odd    == BigBit(a, s) = 1
                 q      == BigTrunc(a, s)
             IN  IF guard = 1 /\ (sticky \/ odd) THEN BigAdd(q, BigPow2(s)) ELSE q

(***************************************************************************)
(* 32-bit integers of the bitwise operators, as bit vectors 0..31.         *)
(***************************************************************************)
Bits32 == 0..31

NatBit(v, i) == IF i >= 31 THEN 0 ELSE (v \div (2^i)) % 2

\* ToInt32 of an integer -2^31 < v < 2^31, in two's complement
ToInt32(v) == [i \in Bits32 |-> IF v >= 0 THEN NatBit(v, i) ELSE 1 - NatBit(-(v + 1), i)]

Shl(b, k) == [i \in Bits32 |-> IF i < k THEN 0 ELSE b[i-k]]

Xor(a, b) == [i \in Bits32 |-> (a[i] + b[i]) % 2]

Not32(a) == [i \in Bits32 |-> 1 - a[i]]

\* the unsigned value of a bit vector as digits
BigOfBits(b) ==
    LET bit(k) == IF k \in Bits32 THEN b[k] ELSE 0
        d(j) == LET s[k \in 0..15] == IF k = 0 THEN 0
                                      ELSE s[k-1] + bit(15 * (j - 1) + k - 1) * (2^(k-1))
                IN  s[15]
    IN  Digits([j \in Limbs |-> d(j)])

\* the signed value of a bit vector: <<negative, magnitude>>
SignedOfBits(b) ==
    IF b[31] = 0 THEN <<FALSE, BigOfBits(b)>>
    ELSE <<TRUE, BigAdd(BigOfBits(Not32(b)), BigOfNat(1))>>

\* (ToInt32(value) & 0x7fffffff) for the value of magnitude mag: the low 31 bits of
\* the value modulo 2^32
Low31(a) == a[1] + a[2] * Base + (a[3] % 2) * (Base * Base)

\* MaskedInt32 without the mask: ToInt32 of the value, bit 31 as the sign
Int32NoMask(neg, mag) ==
    LET lo == Low31(mag)
    IN  IF neg THEN 0 - lo
        ELSE IF (mag[3] \div 2) % 2 = 1 THEN (lo - 2147483647) - 1 ELSE lo

MaskedInt32(neg, mag) ==
    LET lo == Low31(mag)
    IN  IF ~neg \/ lo = 0 THEN lo ELSE (2147483647 - lo) + 1

(***************************************************************************)
(* src/util/hash.js                                                        *)
(***************************************************************************)
HashMulA == 1619
HashMulB == 31337
HashShift == 13
HashK1 == 15731
HashK2 == 789221
HashK3 == 1376312589

\* n = x * 1619 + z * 31337; n = (n << 13) ^ n  -- the second n is a 32-bit integer
HashSeed(x, z) ==
    LET n == ToInt32(x * HashMulA + z * HashMulB)
    IN  SignedOfBits(Xor(Shl(n, HashShift), n))

\* n * (n * n * 15731 + 789221) + 1376312589 in double arithmetic, as <<negative, magnitude>>
HashMix(n) ==
    LET neg == n[1]
        mag == n[2]
        nn  == Round53(BigMul(mag, mag))
        t1  == Round53(BigMulSmall(nn, HashK1))
        t2  == Round53(BigAdd(t1, BigOfNat(HashK2)))
        t3  == Round53(BigMul(t2, mag))
        c   == BigOfNat(HashK3)
    IN  IF BigIsZero(t3) \/ ~neg THEN <<FALSE, Round53(BigAdd(t3, c))>>
        ELSE IF BigGeq(t3, c) THEN <<TRUE, Round53(BigSub(t3, c))>>
        ELSE <<FALSE, BigSub(c, t3)>>

\* hash2D(x, z) = 1.0 - m / 1073741824.0 for the masked integer m in 0 .. 2^31 - 1,
\* an exact double.  The model keeps m: the hash value is (2^30 - m) / 2^30, and
\* h01 = hash2D * 0.5 + 0.5 is 1 - m / 2^31, so m = 0 is hash2D = 1.0 and h01 = 1.0.
hash2D(x, z) ==
    LET v == HashMix(HashSeed(x, z))
    IN  MaskedInt32(v[1], v[2])

\* whether the product n * (n * n * 15731 + 789221) needs more than the 53 bits a
\* double holds exactly
HashOverflows(x, z) ==
    LET n   == HashSeed(x, z)[2]
        nn  == Round53(BigMul(n, n))
        t2  == Round53(BigAdd(Round53(BigMulSmall(nn, HashK1)), BigOfNat(HashK2)))
    IN  BigLen(BigMul(t2, n)) > 53

(***************************************************************************)
(* Sampling hash2D over a grid of integer points.  hq holds the origin of   *)
(* the grid, the number of points sampled so far in row order, the set of   *)
(* masked integers seen (hash2D = 1 - m / 2^30 is one-to-one in m), the     *)
(* last one, and how many sampled points had a product beyond 53 bits.      *)
(***************************************************************************)
HashGrid == 4

HashOrigins == {<<0, 0>>, <<1, 0>>, <<0 - 3, 0 - 2>>, <<17, 0 - 2>>, <<100, 100>>,
                <<0 - 250, 75>>, <<1000, 0 - 1000>>, <<4096, 4096>>}

HashPoint(o, k) == <<o[1] + (k % HashGrid), o[2] + (k \div HashGrid)>>

InitHash ==
    /\ \E o \in HashOrigins : hq = [o |-> o, i |-> 0, seen |-> {}, last |-> 0, over |-> 0]
    /\ tree = <<>>
    /\ bio = <<>>
    /\ fq = <<>>
    /\ wd = <<>>
    /\ pw = <<>>
    /\ ck = <<>>

HashSample ==
    /\ hq # <<>>
    /\ hq.i < HashGrid * HashGrid
    /\ LET p == HashPoint(hq.o, hq.i)
           m == hash2D(p[1], p[2])
       IN  hq' = [hq EXCEPT !.i = @ + 1, !.seen = @ \cup {m}, !.last = m,
                            !.over = @ + (IF HashOverflows(p[1], p[2]) THEN 1 ELSE 0)]
    /\ UNCHANGED <<tree, bio, fq, wd, pw, ck>>

NextHash == HashSample

SpecHash == InitHash /\ [][NextHash]_vars

\* C10: hash2D is not constant or near-constant over a grid of distinct integer
\* points that includes points whose product n * (n * n * 15731 + 789221)
\* exceeds the 53-bit exact-integer range: a fully sampled grid shows at least
\* half as many distinct values as it has points.
C10_ManyDistinctValues ==
    (hq # <<>> /\ hq.i = HashGrid * HashGrid /\ hq.over > 0) =>
        2 * Cardinality(hq.seen) >= HashGrid * HashGrid

\* the denominator 1073741824.0 of hash2D
HashDen == 2^30

\* C12: for all integers x and z the masked intermediate m of hash2D lies in
\* [0, 2^31 - 1], so hash2D = (2^30 - m) / 2^30 lies in [-1, 1] and with it
\* h01 = hash2D * 0.5 + 0.5 lies in [0, 1].
C12_HashInRange ==
    (hq # <<>> /\ hq.i > 0) =>
        /\ 0 <= hq.last /\ hq.last <= 2147483647
        /\ (0 - HashDen) <= HashDen - hq.last /\ HashDen - hq.last <= HashDen

\* C12 witness: a point whose product is beyond 53 bits and whose masked integer
\* exceeds 2^30, so that hash2D is negative there.
C12_Witness ==
    /\ hq # <<>> /\ hq.i > 0
    /\ HashOverflows(HashPoint(hq.o, hq.i - 1)[1], HashPoint(hq.o, hq.i - 1)[2])
    /\ hq.last > HashDen

(***************************************************************************)
(* src/main.js: the seed.  At startup main.js picks a seed and hands it to  *)
(* setNoiseSeed; the world is then generated from hash2D.  hq holds the     *)
(* seeds of two starts of the program, the number of the current start, the *)
(* seed stored by setNoiseSeed, the grid sampled, the outputs of the first  *)
(* start and the number of points where the second start's output differs.  *)
(***************************************************************************)
\* the numeric seeds pickSeed and setNoiseSeed arrive at
Seeds == {0, 1, 12345, 2147483647}

SeedOrigins == {<<0, 0>>, <<17, 0 - 2>>, <<100, 100>>}

\* setNoiseSeed(seed): the seed kept for the process
setNoiseSeed(h, seed) == [h EXCEPT !.noiseSeed = seed]

\* hash2D as the process with the stored seed computes it: the body of hash2D
\* reads x and z only
SeededHash2D(noiseSeed, x, z) == hash2D(x, z)

InitSeed ==
    /\ \E a \in Seeds, b \in Seeds, o \in SeedOrigins :
          /\ a # b
          /\ hq = [seeds |-> <<a, b>>, o |-> o, start |-> 0, noiseSeed |-> 0 - 1, i |-> 0,
                outs |-> <<>>, differ |-> 0]
    /\ tree = <<>>
    /\ bio = <<>>
    /\ fq = <<>>
    /\ wd = <<>>
    /\ pw = <<>>
    /\ ck = <<>>

\* DOMContentLoaded: seed = pickSeed(); setNoiseSeed(seed)
Startup ==
    /\ hq # <<>>
    /\ hq.start = 0 \/ (hq.start = 1 /\ hq.i = HashGrid * HashGrid)
    /\ hq' = [setNoiseSeed(hq, hq.seeds[hq.start + 1]) EXCEPT !.start = @ + 1, !.i = 0]
    /\ UNCHANGED <<tree, bio, fq, wd, pw, ck>>

\* one call of hash2D at the next point of the grid
SeededSample ==
    /\ hq # <<>>
    /\ hq.start \in {1, 2}
    /\ hq.i < HashGrid * HashGrid
    /\ \E m \in {SeededHash2D(hq.noiseSeed, HashPoint(hq.o, hq.i)[1], HashPoint(hq.o, hq.i)[2])} :
          hq' = [hq EXCEPT !.i = @ + 1,
                           !.outs = IF hq.start = 1 THEN Append(@, m) ELSE @,
                           !.differ = IF hq.start = 2 /\ m # hq.outs[hq.i + 1] THEN @ + 1 ELSE @]
    /\ UNCHANGED <<tree, bio, fq, wd, pw, ck>>

NextSeed == Startup \/ SeededSample

SpecSeed == InitSeed /\ [][NextSeed]_vars

\* C11: the seed set at startup is an input of the hash: of two starts with
\* different seeds that sample hash2D over the same grid of integer points, the
\* outputs differ at some point.
C11_SeedChangesHash ==
    (hq # <<>> /\ hq.start = 2 /\ hq.i = HashGrid * HashGrid) => hq.differ > 0

(***************************************************************************)
(* Fractions.  Every float in [0,1] that the generator compares (a roll    *)
(* h01, a river, ravine or ice factor, a biome weight) is kept as a        *)
(* natural number of thousandths: One stands for 1.0.                      *)
(***************************************************************************)
One == 10 * 100

\* h / One > num / den, and h / One < num / den
FracGt(h, num, den) == h * den > num * One
FracLt(h, num, den) == h * den < num * One

clamp01(v) == IF v < 0 THEN 0 ELSE IF v > One THEN One ELSE v

(***************************************************************************)
(* The biome registry (the hardcoded table).  A colour channel is in       *)
(* hundredths; a structure weight is in hundredths, Undefined where the    *)
(* table has no such key.                                                  *)
(***************************************************************************)
Undefined == 0 - 1

ObjProbs(r, s, c, cc, m) ==
    [ruin |-> r, spire |-> s, crystal |-> c, crystal_cluster |-> cc, monolith |-> m]

Biome(id, color, probs) == [id |-> id, baseColor |-> color, objectProbabilities |-> probs]

BiomeIds ==
    {"crimson_desert", "fungal_marsh", "azure_peaks", "volcanic_highlands",
     "crystalline_plains", "alien_forest", "glacial_fields", "ancient_ruins"}

Biomes ==
    [id \in BiomeIds |->
        CASE id = "crimson_desert" ->
                Biome(id, <<86, 42, 20>>, ObjProbs(Undefined, Undefined, 20, Undefined, 40))
          [] id = "fungal_marsh" ->
                Biome(id, <<42, 35, 62>>, ObjProbs(Undefined, Undefined, 10, Undefined, Undefined))
          [] id = "azure_peaks" ->
                Biome(id, <<18, 36, 86>>, ObjProbs(Undefined, 50, Undefined, 30, Undefined))
          [] id = "volcanic_highlands" ->
                Biome(id, <<22, 20, 24>>, ObjProbs(20, 55, 25, Undefined, Undefined))
          [] id = "crystalline_plains" ->
                Biome(id, <<58, 70, 86>>, ObjProbs(Undefined, 15, 55, 30, Undefined))
          [] id = "alien_forest" ->
                Biome(id, <<18, 58, 40>>, ObjProbs(Undefined, Undefined, Undefined, Undefined, Undefined))
          [] id = "glacial_fields" ->
                Biome(id, <<82, 92, 100>>, ObjProbs(Undefined, 10, 20, Undefined, Undefined))
          [] id = "ancient_ruins" ->
                Biome(id, <<62, 62, 52>>, ObjProbs(60, Undefined, Undefined, Undefined, 30))]

(***************************************************************************)
(* src/world/objects.js and temp_tail.js: structure placement.             *)
(*                                                                         *)
(* getTreeAt exists in two revisions: objects.js (placement cell 72, an    *)
(* if-chain over the weights) and temp_tail.js (placement cell 96, a       *)
(* cumulative selection over the weight sum).  A call is a record c: the   *)
(* revision, the column, the fields the call reads at that column, and the *)
(* values h01 returns at the arguments the call hashes.                    *)
(***************************************************************************)
WATER_LEVEL == -7

Versions == {"objects", "temp_tail"}

CELL(ver) == IF ver = "objects" THEN 72 ELSE 96

\* 1.0, 0.55 or 0.0, in hundredths
nearSpawnBoost(worldX, worldZ) ==
    LET dd == worldX * worldX + worldZ * worldZ
    IN  IF dd < 70 * 70 THEN 100 ELSE IF dd < 140 * 140 THEN 55 ELSE 0

cellId(x, z, cell) == [cx |-> x \div cell, cz |-> z \div cell]

\* JitterOffset with the roll not centred: Math.floor(h * (cell * 0.55))
JitterOffsetUncentred(h, cell) == (h * cell * 55) \div (100 * One)

\* Math.floor((h - 0.5) * (cell * 0.55)) for the roll h
JitterOffset(h, cell) == ((2 * h - One) * cell * 55) \div (200 * One)

\* the anchor column of cell (cx, cz); hx and hz are h01(cx * 1337 + 11, cz * 733 + 17)
\* and h01(cx * 911 + 29, cz * 1709 + 31)
cellCenter(cx, cz, cell, hx, hz) ==
    [x |-> cx * cell + (cell \div 2) + JitterOffset(hx, cell),
     z |-> cz * cell + (cell \div 2) + JitterOffset(hz, cell)]

\* what getTreeAt returns: null, or a block list.  gen names the generator that
\* filled the list, pick the entry of the weight table that was selected, blocks
\* the types of the blocks getTreeAt pushes itself, bottom up.
Null == [gen |-> "null", pick |-> "none", blocks |-> <<>>]

Built(gen, pick, blocks) == [gen |-> gen, pick |-> pick, blocks |-> blocks]

\* the result of the big-structure section when it returns nothing and control
\* goes on to the ambient props
FallThrough == [gen |-> "fall", pick |-> "none", blocks |-> <<>>]

Repeat(type, n) == [i \in 1..n |-> type]

LargeGens == {"addRuin", "addSpire", "addCrystalCluster", "addIceFormation", "monolith"}

\* RejectsColumn without the river test
RejectsColumnNoRiver(c) ==
    \/ c.terrainH <= WATER_LEVEL + 1
    \/ FracGt(c.rav, 65, 100)

\* the early returns at the top of both revisions
RejectsColumn(c) ==
    \/ c.terrainH <= WATER_LEVEL + 1
    \/ FracGt(c.rav, 65, 100)
    \/ FracGt(c.river, 70, 100)

\* AtAnchor comparing the x coordinate alone
AtAnchorXOnly(c) ==
    LET id == cellId(c.worldX, c.worldZ, CELL(c.ver))
        a  == cellCenter(id.cx, id.cz, CELL(c.ver), c.hx, c.hz)
    IN  c.worldX = a.x

\* the column is the anchor of its placement cell
AtAnchor(c) ==
    LET id == cellId(c.worldX, c.worldZ, CELL(c.ver))
        a  == cellCenter(id.cx, id.cz, CELL(c.ver), c.hx, c.hz)
    IN  c.worldX = a.x /\ c.worldZ = a.z

\* Number(objectProbs?.key ?? 0)
Weight(w) == IF w = Undefined THEN 0 ELSE w

WeightTotal(P) ==
    Weight(P.ruin) + Weight(P.spire) + Weight(P.crystal)
        + Weight(P.crystal_cluster) + Weight(P.monolith)

\* the spawn roll p against 0.83 - spawnBoost * 0.24 (temp_tail) or
\* 0.80 - spawnBoost * 0.28 (objects); the threshold is in 1/10000
SpawnThreshold(c) ==
    LET boost == nearSpawnBoost(c.worldX, c.worldZ)
    IN  IF c.ver = "objects" THEN 8000 - boost * 28 ELSE 8300 - boost * 24

SpawnPasses(c) == FracGt(c.hP, SpawnThreshold(c), 10000)

\* RollBelow taking the weights to sum to 1: r = h01(...)
RollBelowUnscaled(h, total, acc) == h * 100 < acc * One

\* r < acc for r = h01(...) * total; total and acc are in hundredths
RollBelow(h, total, acc) == h * total < acc * One

\* the monolith column: height = 6 + Math.floor(h01(cx * 61, cz * 73) * 9) blocks and a cap
MonolithTail(c) ==
    Built("monolith", "monolith",
          Repeat("monolith", 6 + (c.hSize * 9) \div One) \o <<"monolithGlow">>)

\* temp_tail.js: the cumulative selection over the five weights
SelectTail(c) ==
    LET P     == Biomes[c.biome].objectProbabilities
        wR    == Weight(P.ruin)
        wS    == Weight(P.spire)
        wC    == Weight(P.crystal)
        wCC   == Weight(P.crystal_cluster)
        wM    == Weight(P.monolith)
        total == wR + wS + wC + wCC + wM
    IN  IF total <= 0 THEN Null
        ELSE IF RollBelow(c.hSel, total, wR) /\ wR > 0
            THEN Built("addRuin", "ruin", <<>>)
        ELSE IF RollBelow(c.hSel, total, wR + wS) /\ wS > 0
            THEN Built("addSpire", "spire", <<>>)
        ELSE IF RollBelow(c.hSel, total, wR + wS + wC) /\ wC > 0
            THEN Built("addCrystalCluster", "crystal", <<>>)
        ELSE IF RollBelow(c.hSel, total, wR + wS + wC + wCC) /\ wCC > 0
            THEN Built("addCrystalCluster", "crystal_cluster", <<>>)
        ELSE IF wM > 0 THEN MonolithTail(c)
        ELSE FallThrough

\* temp_tail.js: the big-structure section
BigTail(c) ==
    IF ~AtAnchor(c) THEN FallThrough
    ELSE IF ~SpawnPasses(c) THEN FallThrough
    ELSE LET allowCluster == FracGt(c.hMask, 38, 100)
         IN  IF FracGt(c.ice, 55, 100) /\ allowCluster /\ FracGt(c.hIce, 42, 100)
                 THEN Built("addIceFormation", "ice", <<>>)
             ELSE IF ~allowCluster THEN Null
             ELSE SelectTail(c)

\* temp_tail.js: the ambient props; c.amb = <<ambientCluster, a, kind, extra>>
AmbientTail(c) ==
    LET boost   == nearSpawnBoost(c.worldX, c.worldZ)
        density == IF c.biome \in {"fungal_marsh", "alien_forest"} THEN 400 ELSE 180
        prob    == density + boost * 2
        kind    == c.amb[3]
        extra   == c.amb[4]
    IN  IF ~(FracGt(c.amb[1], 55, 100) /\ FracLt(c.amb[2], prob, 10000)) THEN Null
        ELSE IF c.biome = "alien_forest" THEN
            IF FracLt(kind, 55, 100)
                THEN Built("ambient", "none",
                           Repeat("tree_trunk", 2 + (extra * 2) \div One) \o <<"tree_canopy">>)
                ELSE Built("ambient", "none", <<"shrub">>)
        ELSE IF c.biome = "fungal_marsh" THEN
            IF FracLt(kind, 65, 100)
                THEN Built("ambient", "none",
                           IF FracLt(extra, 22, 100) THEN <<"mushroom", "mushroom">>
                                                     ELSE <<"mushroom">>)
                ELSE Built("ambient", "none", <<"mushroomGlow">>)
        ELSE IF c.biome = "crystalline_plains" THEN
            Built("ambient", "none", IF FracLt(kind, 65, 100) THEN <<"crystal">> ELSE <<"crystal2">>)
        ELSE IF c.biome = "crimson_desert" THEN
            Built("ambient", "none", IF FracLt(kind, 75, 100) THEN <<"shrub">> ELSE <<"crystal2">>)
        ELSE Built("ambient", "none", IF FracLt(kind, 50, 100) THEN <<"shrub">> ELSE <<>>)

\* objects.js: a weight that the if-chain takes as present (defined and not 0)
Truthy(w) == w # Undefined /\ w # 0

\* objects.js: rand < w1 + ... + wn, false when a term is undefined (the sum is NaN)
RandBelowSum(h, ws) ==
    /\ \A i \in 1..Len(ws) : ws[i] # Undefined
    /\ LET sum[i \in 0..Len(ws)] == IF i = 0 THEN 0 ELSE sum[i-1] + ws[i]
       IN  h * 100 < sum[Len(ws)] * One

\* objects.js: height = 8 + Math.floor(h01(cx * 61, cz * 73) * 12) blocks and a cap
MonolithObjects(c) ==
    Built("monolith", "monolith",
          Repeat("monolith", 8 + (c.hSize * 12) \div One) \o <<"monolithGlow">>)

\* objects.js: the if-chain over the weights; it returns the block list even
\* when no branch was taken and the list is empty
SelectObjects(c) ==
    LET P == Biomes[c.biome].objectProbabilities
    IN  IF Truthy(P.ruin) /\ RandBelowSum(c.hSel, <<P.ruin>>)
            THEN Built("addRuin", "ruin", <<>>)
        ELSE IF Truthy(P.spire) /\ RandBelowSum(c.hSel, <<P.ruin, P.spire>>)
            THEN Built("addSpire", "spire", <<>>)
        ELSE IF Truthy(P.crystal) /\ RandBelowSum(c.hSel, <<P.ruin, P.spire, P.crystal>>)
            THEN Built("addCrystalCluster", "crystal", <<>>)
        ELSE IF Truthy(P.crystal_cluster)
                /\ RandBelowSum(c.hSel, <<P.ruin, P.spire, P.crystal, P.crystal_cluster>>)
            THEN Built("addCrystalCluster", "crystal_cluster", <<>>)
        ELSE IF Truthy(P.monolith) THEN MonolithObjects(c)
        ELSE Built("empty", "none", <<>>)

\* objects.js: the big-structure section
BigObjects(c) ==
    IF ~AtAnchor(c) THEN FallThrough
    ELSE IF ~SpawnPasses(c) THEN FallThrough
    ELSE IF FracGt(c.ice, 55, 100) /\ FracGt(c.hIce, 35, 100)
        THEN Built("addIceFormation", "ice", <<>>)
    ELSE SelectObjects(c)

\* objects.js: the ambient props; c.amb = <<unused, a, kind, extra>>
AmbientObjects(c) ==
    LET boost   == nearSpawnBoost(c.worldX, c.worldZ)
        density == IF c.biome \in {"fungal_marsh", "alien_forest"} THEN 600 ELSE 350
        prob    == density + boost * 4
        kind    == c.amb[3]
        extra   == c.amb[4]
        one(t)  == <<t>>
        more(t, num) == IF FracLt(extra, num, 100) THEN <<t, t>> ELSE <<t>>
    IN  IF ~FracLt(c.amb[2], prob, 10000) THEN Null
        ELSE IF c.biome = "alien_forest" THEN
            IF FracLt(kind, 60, 100)
                THEN Built("ambient", "none",
                           Repeat("tree_trunk", 2 + (extra * 3) \div One) \o <<"tree_canopy">>)
                ELSE Built("ambient", "none", more("shrub", 40))
        ELSE IF c.biome = "fungal_marsh" THEN
            IF FracLt(kind, 70, 100)
                THEN Built("ambient", "none",
                           IF FracLt(extra, 30, 100) THEN Repeat("mushroom", 4)
                                                     ELSE Repeat("mushroom", 2))
                ELSE Built("ambient", "none", one("mushroomGlow"))
        ELSE IF c.biome = "crystalline_plains" THEN
            Built("ambient", "none",
                  IF FracLt(kind, 60, 100) THEN more("crystal", 30) ELSE one("crystal2"))
        ELSE IF c.biome = "crimson_desert" THEN
            Built("ambient", "none",
                  IF FracLt(kind, 70, 100) THEN one("shrubRed") ELSE one("monolith"))
        ELSE IF c.biome = "glacial_fields" THEN
            Built("ambient", "none",
                  IF FracLt(kind, 80, 100) THEN more("iceSpire", 40) ELSE one("iceCore"))
        ELSE Built("ambient", "none",
                   IF FracLt(kind, 65, 100) THEN more("shrub", 25) ELSE Repeat("mushroom", 2))

\* getTreeAt(worldX, worldZ, terrainH) of the revision c.ver
getTreeAt(c) ==
    IF RejectsColumn(c) THEN Null
    ELSE LET big == IF c.ver = "objects" THEN BigObjects(c) ELSE BigTail(c)
         IN  IF big # FallThrough THEN big
             ELSE IF c.ver = "objects" THEN AmbientObjects(c) ELSE AmbientTail(c)

(***************************************************************************)
(* Calls of getTreeAt.  The inputs are drawn in the initial state; the     *)
(* rolls are sampled at the least value a roll takes, at its greatest      *)
(* value 1.0 (hash2D = 1.0) and on both sides of every threshold.          *)
(***************************************************************************)
\* number of selection rolls sampled between 0 and 1.0
SelSteps == 20

\* placement cells sampled per axis: -MaxCell .. MaxCell
MaxCell == 1

TreeCells == {<<cx, cz>> \in (-MaxCell..MaxCell) \X (-MaxCell..MaxCell) : cx = cz \/ cx + cz = 1}

\* pairs of jitter rolls sampled for the anchor
JitterPairs == {<<1, One>>, <<1, 1>>, <<One \div 2, One \div 2>>, <<One, 1>>}

\* the columns sampled in a cell: every column that is the anchor under one of
\* the jitter pairs
TreeColumns(ver, cell) ==
    {cellCenter(cell[1], cell[2], CELL(ver), j[1], j[2]) : j \in JitterPairs}

\* height, ravine factor, river factor: all pass, or exactly one rejects, each
\* at its boundary
GateInputs ==
    {<<WATER_LEVEL + 2, 650, 700>>, <<WATER_LEVEL + 1, 650, 700>>,
     <<WATER_LEVEL + 2, 651, 700>>, <<WATER_LEVEL + 2, 650, 701>>}

\* ice factor, ice roll, cluster mask roll
IceInputs == {<<551, 900, 900>>, <<551, 900, 370>>, <<551, 400, 900>>, <<550, 900, 380>>}

\* ambientCluster, a, kind, extra
AmbientRolls ==
    {<<600, 10, 300, 200>>, <<600, 10, 900, One>>, <<500, 10, 300, 200>>, <<600, 700, 300, 200>>}

SelRolls == {(k * One) \div SelSteps : k \in 1..SelSteps} \cup {1}

Call(ver, col, terrainH, rav, river, ice, biome, hx, hz, hP, hMask, hIce, hSel, hSize, amb) ==
    [ver |-> ver, worldX |-> col.x, worldZ |-> col.z, terrainH |-> terrainH,
     rav |-> rav, river |-> river, ice |-> ice, biome |-> biome,
     hx |-> hx, hz |-> hz, hP |-> hP, hMask |-> hMask, hIce |-> hIce,
     hSel |-> hSel, hSize |-> hSize, amb |-> amb]

Pending(c) == [done |-> FALSE, call |-> c, result |-> Null]

\* a call that exercises the gates, the anchor test and the ambient props
GateCall ==
    \E ver \in Versions, cell \in TreeCells, g \in GateInputs, j \in JitterPairs,
       biome \in {"crimson_desert", "alien_forest", "azure_peaks"},
       hP \in {500, One}, amb \in AmbientRolls :
        \E col \in TreeColumns(ver, cell) :
            tree = Pending(Call(ver, col, g[1], g[2], g[3], 551, biome, j[1], j[2], hP,
                                900, 400, One, 500, amb))

\* a call at the anchor of a cell that exercises the selection
SelectCall ==
    \E ver \in Versions, cell \in TreeCells, i \in IceInputs, biome \in BiomeIds,
       hP \in {650, One}, hSel \in SelRolls, hSize \in {1, One} :
        /\ cell[1] = cell[2]
        /\ tree = Pending(Call(ver, cellCenter(cell[1], cell[2], CELL(ver), One, One),
                               WATER_LEVEL + 2, 0, 0, i[1], biome, One, One, hP, i[3], i[2],
                               hSel, hSize, <<500, 10, 300, 200>>))

InitTree ==
    /\ GateCall \/ SelectCall
    /\ hq = <<>>
    /\ bio = <<>>
    /\ fq = <<>>
    /\ wd = <<>>
    /\ pw = <<>>
    /\ ck = <<>>

\* the chunk builder asks for the column's structure
GetTreeAt ==
    /\ tree # <<>>
    /\ tree.done = FALSE
    /\ tree' = [tree EXCEPT !.done = TRUE, !.result = getTreeAt(tree.call)]
    /\ UNCHANGED <<hq, bio, fq, wd, pw, ck>>

NextTree == GetTreeAt

SpecTree == InitTree /\ [][NextTree]_vars

(***************************************************************************)
(* Structure placement: the claims.                                        *)
(***************************************************************************)
Called == tree # <<>> /\ tree.done

\* the anchor column of the placement cell that holds the call's column
AnchorOfCall ==
    LET c  == tree.call
        id == cellId(c.worldX, c.worldZ, CELL(c.ver))
    IN  cellCenter(id.cx, id.cz, CELL(c.ver), c.hx, c.hz)

\* C5: getTreeAt returns null (no structure, no ambient prop) whenever
\* h <= WATER_LEVEL + 1, or the ravine factor exceeds 0.65, or the river factor
\* exceeds 0.70, also at an anchor column whose spawn roll passes.
C5_NullWhenRejected ==
    Called =>
        LET c == tree.call
        IN  (\/ c.terrainH <= WATER_LEVEL + 1
             \/ c.rav * 100 > 65 * One
             \/ c.river * 100 > 70 * One) => tree.result = Null

\* C5 witness: an anchor column whose spawn roll passes and that only the river
\* factor rejects got null.
C5_Witness ==
    /\ Called
    /\ tree.call.terrainH > WATER_LEVEL + 1
    /\ tree.call.rav * 100 <= 65 * One
    /\ tree.call.river * 100 > 70 * One
    /\ AnchorOfCall = [x |-> tree.call.worldX, z |-> tree.call.worldZ]
    /\ tree.call.hP = One
    /\ tree.result = Null

\* C6: getTreeAt runs a large-structure generator (addRuin, addSpire,
\* addCrystalCluster, addIceFormation, the monolith column) only when the column
\* is the anchor cellCenter(cx, cz) of the placement cell that holds it.
C6_LargeOnlyAtAnchor ==
    (Called /\ tree.result.gen \in LargeGens) =>
        /\ tree.call.worldX = AnchorOfCall.x
        /\ tree.call.worldZ = AnchorOfCall.z

\* C6 witness: a column that shares its x with the anchor of its cell and not its
\* z, with a passing spawn roll and no rejection, roots no large structure.
C6_Witness ==
    /\ Called
    /\ ~(\/ tree.call.terrainH <= WATER_LEVEL + 1
         \/ tree.call.rav * 100 > 65 * One
         \/ tree.call.river * 100 > 70 * One)
    /\ tree.call.hP = One
    /\ tree.call.worldX = AnchorOfCall.x
    /\ tree.call.worldZ # AnchorOfCall.z
    /\ tree.result.gen \notin LargeGens

\* C7: for placement cells of size 72 and 96 the anchor column has integer
\* coordinates inside its own cell, cx * CELL <= x < (cx + 1) * CELL and the same
\* for z, whatever the jitter rolls, so cellId(anchor) = (cx, cz).
C7_AnchorInsideCell ==
    tree # <<>> =>
        LET c    == tree.call
            cell == CELL(c.ver)
            id   == cellId(c.worldX, c.worldZ, cell)
            a    == AnchorOfCall
        IN  /\ id.cx * cell <= a.x /\ a.x < (id.cx + 1) * cell
            /\ id.cz * cell <= a.z /\ a.z < (id.cz + 1) * cell
            /\ cellId(a.x, a.z, cell) = id

\* C7 witness: a cell of negative coordinates whose jitter rolls are the two
\* extremes (h01 = 1.0 for x, the least roll for z), queried at its anchor.
C7_Witness ==
    /\ Called
    /\ tree.call.hx = One
    /\ tree.call.hz = 1
    /\ tree.call.worldX < 0
    /\ tree.call.worldX = AnchorOfCall.x
    /\ tree.call.worldZ = AnchorOfCall.z

\* the five weights of the call's biome as temp_tail.js reads them, in the order
\* ruin, spire, crystal, crystal_cluster, monolith
SelNames == <<"ruin", "spire", "crystal", "crystal_cluster", "monolith">>

SelWeights ==
    LET P == Biomes[tree.call.biome].objectProbabilities
    IN  <<Weight(P.ruin), Weight(P.spire), Weight(P.crystal), Weight(P.crystal_cluster),
          Weight(P.monolith)>>

SelCum == [k \in 0..5 |-> LET s[i \in 0..5] == IF i = 0 THEN 0 ELSE s[i-1] + SelWeights[i]
                          IN  s[k]]

\* the call reached the weighted selection of temp_tail.js: anchor column, no
\* rejection, spawn roll passed, cluster gate open, no forced ice formation,
\* positive total weight
ReachedSelection ==
    LET c == tree.call
    IN  /\ Called
        /\ c.ver = "temp_tail"
        /\ ~(\/ c.terrainH <= WATER_LEVEL + 1
             \/ c.rav * 100 > 65 * One
             \/ c.river * 100 > 70 * One)
        /\ c.worldX = AnchorOfCall.x /\ c.worldZ = AnchorOfCall.z
        /\ c.hP * 10000 > (8300 - nearSpawnBoost(c.worldX, c.worldZ) * 24) * One
        /\ c.hMask * 100 > 38 * One
        /\ ~(c.ice * 100 > 55 * One /\ c.hIce * 100 > 42 * One)
        /\ SelCum[5] > 0

\* C8: in the weighted selection of temp_tail.js, whenever the spawn roll passes,
\* the cluster gate allows and the total weight is positive, one structure type
\* is selected for every value of the selection roll, its greatest value 1.0
\* (r = total) included, also when the monolith weight is 0.
C8_AlwaysSelects ==
    ReachedSelection =>
        /\ tree.result.pick \in {SelNames[k] : k \in 1..5}
        /\ tree.result.gen \in LargeGens

\* C9: the type selected by temp_tail.js is the one whose cumulative-weight
\* interval holds r = roll * total, in the order ruin, spire, crystal,
\* crystal_cluster, monolith: a type is selected on exactly the rolls of its
\* interval, whatever the weights sum to, and a type of weight 0 is never selected.
C9_SelectsByCumulativeWeight ==
    ReachedSelection =>
        LET r == tree.call.hSel * SelCum[5]
        IN  \A k \in 1..5 :
                /\ tree.result.pick = SelNames[k] =>
                      /\ SelWeights[k] > 0
                      /\ SelCum[k-1] * One <= r /\ r <= SelCum[k] * One
                /\ (SelWeights[k] > 0 /\ SelCum[k-1] * One <= r /\ r < SelCum[k] * One)
                      => tree.result.pick = SelNames[k]

\* C9 witness: a table whose weights do not sum to 1 and a roll strictly inside
\* the interval of its second positive weight: that type is selected.
C9_Witness ==
    /\ ReachedSelection
    /\ SelCum[5] # 100
    /\ tree.result.pick = "monolith"
    /\ SelWeights[3] > 0
    /\ tree.call.hSel * SelCum[5] > SelCum[4] * One
    /\ tree.call.hSel * SelCum[5] < SelCum[5] * One

(***************************************************************************)
(* biomes.js: the biome classifier.  Positions are in tenths of a world    *)
(* unit, squared distances in their squares, distances in hundredths of a  *)
(* world unit, weights in thousandths.  A world w gives what the hashes    *)
(* and the climate noise give the classifier: w.r, the roll cellRand01     *)
(* returns for the feature points, and the biome type of a cell, w.p for   *)
(* the cells of column cx <= 0 and w.q for the cells east of them.         *)
(***************************************************************************)
Unit == 2 * 5

BIOME_CELL == 24

\* 0.18, in thousandths
TRANSITION_BAND == 180

\* t * t * (3 - 2 * t)
smooth01(t) == (((t * t) \div One) * (3 * One - 2 * t)) \div One

RECURSIVE SqrtSearch(_, _, _)
SqrtSearch(n, lo, hi) ==
    IF lo >= hi THEN lo
    ELSE LET mid == (lo + hi + 1) \div 2
         IN  IF mid * mid <= n THEN SqrtSearch(n, mid, hi) ELSE SqrtSearch(n, lo, mid - 1)

\* Math.sqrt of a squared distance, in hundredths of a world unit
Sqrt(d2) == SqrtSearch(d2 * 100, 0, 20 * BIOME_CELL * Unit)

cellRand01(w, cx, cz, salt) == clamp01(w.r)

featurePoint(w, cx, cz) ==
    LET rx == cellRand01(w, cx, cz, 11)
        rz == cellRand01(w, cx, cz, 23)
    IN  [x |-> cx * BIOME_CELL * Unit + (15 * BIOME_CELL * Unit) \div 100
                  + (rx * 70 * BIOME_CELL * Unit) \div (100 * One),
         z |-> cz * BIOME_CELL * Unit + (15 * BIOME_CELL * Unit) \div 100
                  + (rz * 70 * BIOME_CELL * Unit) \div (100 * One)]

pickTypeForCell(w, cx, cz) == IF cx <= 0 THEN w.p ELSE w.q

NoCell == [type |-> "null", d2 |-> 0 - 1]

\* the candidate of the i-th cell of the scan over the 3 x 3 block of cells
\* around (gx, gz), rows of dz = -1, 0, 1 and in each row dx = -1, 0, 1
Candidate(w, x, z, gx, gz, i) ==
    LET cx == gx + (i % 3) - 1
        cz == gz + (i \div 3) - 1
    IN  CHOOSE cand \in
            {[type |-> pickTypeForCell(w, cx, cz),
              d2   |-> (x - p.x) * (x - p.x) + (z - p.z) * (z - p.z)] :
                 p \in {featurePoint(w, cx, cz)}} : TRUE

\* the body of the loop without the move of bestA to bestB
ScanStepNoShift(best, cand) ==
    CHOOSE next \in
        {IF b[1] = NoCell \/ c.d2 < b[1].d2 THEN <<c, b[2]>>
         ELSE IF b[2] = NoCell \/ c.d2 < b[2].d2 THEN <<b[1], c>>
         ELSE b : b \in {best}, c \in {cand}} : TRUE

\* the body of the scan's loop, from <<bestA, bestB>> to their next values
ScanStep(best, cand) ==
    CHOOSE next \in
        {IF b[1] = NoCell \/ c.d2 < b[1].d2 THEN <<c, b[1]>>
         ELSE IF b[2] = NoCell \/ c.d2 < b[2].d2 THEN <<b[1], c>>
         ELSE b : b \in {best}, c \in {cand}} : TRUE

\* (x, z) is the warped point
nearestTwoCells(w, x, z) ==
    LET gx   == x \div (BIOME_CELL * Unit)
        gz   == z \div (BIOME_CELL * Unit)
        c(i) == Candidate(w, x, z, gx, gz, i)
        row1 == ScanStep(ScanStep(ScanStep(<<NoCell, NoCell>>, c(0)), c(1)), c(2))
        row2 == ScanStep(ScanStep(ScanStep(row1, c(3)), c(4)), c(5))
        row3 == ScanStep(ScanStep(ScanStep(row2, c(6)), c(7)), c(8))
    IN  CHOOSE ab \in {<<b[1], IF b[2] = NoCell THEN b[1] ELSE b[2]>> : b \in {row3}} : TRUE

\* what a read of a key the registry does not have gives
UndefinedBiome == [undefined |-> TRUE]

\* reg[type] ?? reg["crystalline_plains"], for a registry reg
Lookup(reg, type) ==
    IF type \in DOMAIN reg THEN reg[type]
    ELSE IF "crystalline_plains" \in DOMAIN reg THEN reg["crystalline_plains"]
    ELSE UndefinedBiome

\* the scan of nearestTwoCells over the nine candidates c[1] .. c[9], in the
\* order of the loops
ScanAll(c) ==
    CHOOSE ab \in
        {<<b[1], IF b[2] = NoCell THEN b[1] ELSE b[2]>> :
            b \in {ScanStep(ScanStep(ScanStep(ScanStep(ScanStep(ScanStep(ScanStep(
                   ScanStep(ScanStep(<<NoCell, NoCell>>, c[1]), c[2]), c[3]), c[4]),
                   c[5]), c[6]), c[7]), c[8]), c[9])}} : TRUE

\* Biomes[type] ?? Biomes["crystalline_plains"]
Resolve(type) == Lookup(Biomes, type)

\* clamp01((d1 - d0) / (BIOME_CELL * 0.55))
Edge(d0, d1) == clamp01(((d1 - d0) * One) \div (BIOME_CELL * 55))

\* smooth01(clamp01((edge - TRANSITION_BAND) / (1.0 - TRANSITION_BAND)))
Blend(edge) == smooth01(clamp01(((edge - TRANSITION_BAND) * One) \div (One - TRANSITION_BAND)))

\* wA = clamp01(0.06 + 0.94 * t)
NearerWeight(t) == clamp01(60 + (940 * t) \div One)

\* FartherWeight taken from the blend instead of from wA
FartherWeightFromBlend(wA) == One - ((wA * 940) \div One)

\* wB = 1.0 - wA
FartherWeight(wA) == One - wA

\* the list getBiomeWeights builds from the two nearest cells a and b
WeightList(a, b) ==
    IF Resolve(a.type).id = Resolve(b.type).id
        THEN <<[biome |-> Resolve(a.type).id, w |-> One]>>
    ELSE <<[biome |-> Resolve(a.type).id,
            w     |-> NearerWeight(Blend(Edge(Sqrt(a.d2), Sqrt(b.d2))))],
           [biome |-> Resolve(b.type).id,
            w     |-> FartherWeight(NearerWeight(Blend(Edge(Sqrt(a.d2), Sqrt(b.d2)))))]>>

getBiomeWeights(w, x, z) ==
    CHOOSE weights \in {WeightList(ab[1], ab[2]) : ab \in {nearestTwoCells(w, x, z)}} : TRUE

\* a colour channel of the mix: the sum of channel * w, clamped
MixChannel(weights, ch) ==
    LET sum[i \in 0..Len(weights)] ==
            IF i = 0 THEN 0
            ELSE sum[i-1] + Biomes[weights[i].biome].baseColor[ch] * weights[i].w
        v == sum[Len(weights)] \div One
    IN  IF v < 0 THEN 0 ELSE IF v > 100 THEN 100 ELSE v

\* what getBiomeMixAt builds from the list of weights
MixOf(weights) ==
    IF Len(weights) = 1
        THEN [dominant |-> weights[1].biome, weights |-> weights,
              baseColor |-> Biomes[weights[1].biome].baseColor]
    ELSE [dominant |-> IF weights[2].w > weights[1].w THEN weights[2].biome
                       ELSE weights[1].biome,
          weights |-> weights,
          baseColor |-> <<MixChannel(weights, 1), MixChannel(weights, 2),
                          MixChannel(weights, 3)>>]

getBiomeMixAt(w, x, z) ==
    CHOOSE mix \in {MixOf(weights) : weights \in {getBiomeWeights(w, x, z)}} : TRUE

getBiomeAt(w, x, z) == getBiomeMixAt(w, x, z).dominant

(***************************************************************************)
(* A walk across a biome border.  The walker samples getBiomeMixAt at the   *)
(* feature point of cell (0, 0) or north of it and then every half of a     *)
(* world unit eastwards, up to the feature point of cell (1, 0).  bio holds *)
(* the world, the next point, the number of samples taken, the last sample  *)
(* (the two nearest cells, d1 - d0, the mix) and the one before it, d1 - d0 *)
(* at the first sample, whether d1 - d0 fell up to the change of the        *)
(* nearest cell and rose after it, how often the nearest cell's type        *)
(* changed and how often the dominant biome changed.                        *)
(***************************************************************************)
BioTypes == {"crimson_desert", "fungal_marsh", "azure_peaks"}

Worlds == {[p |-> p, q |-> q, r |-> r] : p \in BioTypes, q \in BioTypes, r \in {One \div 2, One}}

\* offsets of the walk's row north of the feature point, in tenths
RowOffsets == {0, (BIOME_CELL * Unit) \div 4, (BIOME_CELL * Unit) \div 2}

NoMix == [dominant |-> "null", weights |-> <<>>, baseColor |-> <<>>]

NoSample == [cells |-> <<NoCell, NoCell>>, gap |-> 0, mix |-> NoMix]

\* the walker's step, half a world unit
Stride == Unit \div 2

WalkLength == (BIOME_CELL * Unit) \div Stride

\* the weight the list gives biome id, 0 when it is not in the list
WeightOf(weights, id) ==
    LET sum[i \in 0..Len(weights)] ==
            IF i = 0 THEN 0
            ELSE sum[i-1] + (IF weights[i].biome = id THEN weights[i].w ELSE 0)
    IN  sum[Len(weights)]

InitBio ==
    /\ \E w \in Worlds, off \in RowOffsets :
          bio = [w |-> w, x |-> featurePoint(w, 0, 0).x, z |-> featurePoint(w, 0, 0).z + off,
                 k |-> 0, cur |-> NoSample, prev |-> NoSample, startGap |-> 0,
                 mono |-> TRUE, crossed |-> 0, changes |-> 0]
    /\ hq = <<>>
    /\ tree = <<>>
    /\ fq = <<>>
    /\ wd = <<>>
    /\ pw = <<>>
    /\ ck = <<>>

\* one call of getBiomeMixAt at the walker's point, and the step to the next
SampleMix ==
    /\ bio # <<>>
    /\ bio.k <= WalkLength
    /\ \E ab \in {nearestTwoCells(bio.w, bio.x, bio.z)},
          mix \in {getBiomeMixAt(bio.w, bio.x, bio.z)} :
          \E gap \in {Sqrt(ab[2].d2) - Sqrt(ab[1].d2)} :
             LET first == bio.k = 0
                 cross == ~first /\ ab[1].type # bio.cur.cells[1].type
             IN  bio' = [bio EXCEPT
                           !.k = @ + 1,
                           !.x = @ + Stride,
                           !.prev = bio.cur,
                           !.cur = [cells |-> ab, gap |-> gap, mix |-> mix],
                           !.startGap = IF first THEN gap ELSE @,
                           !.mono = first \/ (@ /\ (cross \/ IF bio.crossed = 0
                                                              THEN gap <= bio.cur.gap
                                                              ELSE gap >= bio.cur.gap)),
                           !.crossed = @ + (IF cross THEN 1 ELSE 0),
                           !.changes = @ + (IF ~first /\ mix.dominant # bio.cur.mix.dominant
                                            THEN 1 ELSE 0)]
    /\ UNCHANGED <<hq, tree, fq, wd, pw, ck>>

NextBio == SampleMix

SpecBio == InitBio /\ [][NextBio]_vars

Sampled == bio # <<>> /\ bio.k > 0

\* C1: getBiomeWeights returns one or two (biome, w) entries, every w in [0, 1]
\* and the weights summing to 1; it returns a single entry, of w = 1, exactly
\* when the two nearest cells resolve to the same biome.
C1_WeightsNormalised ==
    Sampled =>
        LET ws   == bio.cur.mix.weights
            same == Resolve(bio.cur.cells[1].type).id = Resolve(bio.cur.cells[2].type).id
        IN  /\ Len(ws) \in {1, 2}
            /\ \A i \in 1..Len(ws) : 0 <= ws[i].w /\ ws[i].w <= One
            /\ (IF Len(ws) = 1 THEN ws[1].w ELSE ws[1].w + ws[2].w) = One
            /\ Len(ws) = 1 <=> same
            /\ Len(ws) = 1 => ws[1].w = One

\* C1 witness: a point in the blend zone between two cells of different biomes,
\* where both weights are strictly between the floor and 1.
C1_Witness ==
    /\ Sampled
    /\ Len(bio.cur.mix.weights) = 2
    /\ bio.cur.mix.weights[1].w > 60
    /\ bio.cur.mix.weights[1].w < One
    /\ bio.cur.mix.weights[2].w > 0

\* C2: whenever getBiomeWeights returns two entries, the weight of the farther
\* cell's biome (the second entry, wB) is at least the floor 0.06, for every pair
\* of distances d0 <= d1.
C2_FartherWeightFloor ==
    (Sampled /\ Len(bio.cur.mix.weights) = 2) => bio.cur.mix.weights[2].w >= 60

\* the gap d1 - d0 below which the blend is 0 (edge < TRANSITION_BAND), in
\* hundredths of a world unit
BandGap == (TRANSITION_BAND * BIOME_CELL * 55) \div One

\* C3: the mix is continuous across the border between cells of different
\* biomes P and Q: with d1 - d0 inside the transition band on both sides (where
\* each side's weights have reached their limit for d1 - d0 -> 0), the weight of
\* P and the blended colour are the same on the side where P's feature point is
\* the nearest and on the side where Q's is.
C3_ContinuousAcrossBorder ==
    (/\ Sampled /\ bio.k > 1
     /\ bio.cur.cells[1].type # bio.prev.cells[1].type
     /\ Len(bio.cur.mix.weights) = 2 /\ Len(bio.prev.mix.weights) = 2
     /\ bio.cur.gap < BandGap /\ bio.prev.gap < BandGap) =>
        /\ WeightOf(bio.cur.mix.weights, bio.w.p) = WeightOf(bio.prev.mix.weights, bio.w.p)
        /\ bio.cur.mix.baseColor = bio.prev.mix.baseColor

\* d1 - d0 >= 0.55 * BIOME_CELL, in hundredths of a world unit
Deep(gap) == gap >= BIOME_CELL * 55

\* C4: along a path that starts deep inside a cell of biome P, crosses the
\* border to a neighbouring cell of another biome Q and ends deep inside it,
\* d1 - d0 falling to the border and rising after it, the dominant biome of
\* getBiomeMixAt / getBiomeAt changes exactly once, from P to Q.
C4_DominantChangesOnce ==
    (/\ Sampled
     /\ bio.w.p # bio.w.q
     /\ Deep(bio.startGap) /\ Deep(bio.cur.gap)
     /\ bio.mono /\ bio.crossed = 1
     /\ bio.cur.cells[1].type = bio.w.q) =>
        /\ bio.changes = 1
        /\ bio.cur.mix.dominant = bio.w.q

(***************************************************************************)
(* The height and material field (src/world/terrain.js, second revision).  *)
(* A height is an integer number of ticks, a tick being 1e-7 of a world     *)
(* unit, so that the 1e-6 floor of softClamp's divisor is ten ticks; a      *)
(* noise value and an interpolation factor are in thousandths.              *)
(***************************************************************************)
Tick == 10 ^ 7

\* the 1e-6 of Math.max(1e-6, knee)
KneeFloor == Tick \div (10 ^ 6)

\* x * (f / One), without the intermediate product leaving 32 bits
MulFrac(x, f) == (x \div One) * f + ((x % One) * f) \div One

\* clamp01(a / den), in thousandths, for den > 0
ClampedRatio(a, den) ==
    IF a <= 0 THEN 0
    ELSE IF a >= den THEN One
    ELSE IF den >= One * One THEN clamp01(a \div (den \div One))
    ELSE clamp01((a * One) \div den)

\* lerp = (a, b, t) => a + (b - a) * t
lerp(a, b, t) == a + MulFrac(b - a, t)

softClamp(v, hardMax, knee) ==
    IF v <= hardMax - knee THEN v
    ELSE LET den == IF knee > KneeFloor THEN knee ELSE KneeFloor
             t == ClampedRatio(v - (hardMax - knee), den)
         IN  lerp(v, hardMax, (t * t) \div One)

\* profileBase, in thousandths of a world unit, from the macro fbm value
profileBase(macro) == macro * 20 + 6 * One

\* heightMountains up to the soft clamp, in thousandths of a world unit.  nz
\* holds the five noise values the function reads; cfg is
\* worldConfig.terrain.mountain, its amplitudes in world units.
MountainRaw(cfg, nz) ==
    LET base == (profileBase(nz.macro) * 78) \div 100 + cfg.baseLift * One
        mask == clamp01(((nz.ridgeA - 380) * One) \div 620)
        mask2 == (mask * mask) \div One
        big == MulFrac(((nz.ridgeA - 500) * cfg.bigAmp * 78) \div 100,
                       550 + (450 * mask2) \div One)
        med == MulFrac(((nz.ridgeB - 500) * cfg.medAmp * 72) \div 100,
                       450 + (550 * mask) \div One)
        crag == ((nz.crag - 500) * cfg.cragAmp * 55) \div 100
        erosion == MulFrac((nz.erode \div 2 + 500) * 7, 400 + (600 * mask) \div One)
        h == base + big + med + crag - erosion
        t0 == 26 * One
        terr == ((h - t0 + One) \div (2 * One)) * (2 * One) + t0
    IN  IF h > t0 THEN (h * 55) \div 100 + (terr * 45) \div 100 ELSE h

heightMountains(cfg, nz) ==
    softClamp(MountainRaw(cfg, nz) * (Tick \div One), cfg.hardClamp, cfg.softKnee)

(***************************************************************************)
(* Materials (src/world/materials.js) and the material queries.  A read of *)
(* a key an object does not have gives UndefinedId, as in JavaScript.      *)
(***************************************************************************)
UndefinedId == "undefined"

Member(obj, key) == IF key \in DOMAIN obj THEN obj[key] ELSE UndefinedId

MaterialId ==
    [VACUUM |-> "vacuum", REGOLITH |-> "regolith", BASALT |-> "basalt",
     ANORTHOSITE |-> "anorthosite", IMPACT_GLASS |-> "impact_glass", ICE |-> "ice",
     METAL |-> "metal", BEDROCK |-> "bedrock"]

MaterialIds == {MaterialId[k] : k \in DOMAIN MaterialId}

materialFromId(id) ==
    IF id = Member(MaterialId, "BASALT") THEN Member(MaterialId, "BASALT")
    ELSE IF id = Member(MaterialId, "ANORTHOSITE") THEN Member(MaterialId, "ANORTHOSITE")
    ELSE IF id = Member(MaterialId, "ICE") THEN Member(MaterialId, "ICE")
    ELSE IF id = Member(MaterialId, "METAL") THEN Member(MaterialId, "METAL")
    ELSE IF id = Member(MaterialId, "IMPACT_GLASS") THEN Member(MaterialId, "IMPACT_GLASS")
    ELSE IF id = Member(MaterialId, "BEDROCK") THEN Member(MaterialId, "BEDROCK")
    ELSE Member(MaterialId, "REGOLITH")

\* biome.materials?.[key] ?? "regolith"
ConfiguredMaterial(biome, key) ==
    IF "materials" \in DOMAIN biome /\ key \in DOMAIN biome.materials
    THEN biome.materials[key]
    ELSE "regolith"

\* getSurfaceMaterial, from the height of the column, its ice factor in
\* thousandths and its dominant biome
getSurfaceMaterial(h, ice, biome) ==
    IF FracGt(ice, 58, 100) THEN Member(MaterialId, "ICE")
    ELSE IF h <= WATER_LEVEL THEN Member(MaterialId, "WATER")
    ELSE materialFromId(ConfiguredMaterial(biome, "surface"))

\* the same with the bedrock test first
getMaterialAtBedrockFirst(h, y, m, biome) ==
    IF y < 0 - 92 THEN Member(MaterialId, "BEDROCK")
    ELSE IF y > h THEN Member(MaterialId, "VACUUM")
    ELSE IF h - y > 10 /\ h - y < 18 /\ FracGt(m, 86, 100) THEN Member(MaterialId, "METAL")
    ELSE materialFromId(ConfiguredMaterial(biome, "subsurface"))

\* getMaterialAt, from the height of the column, y, the vein noise m in
\* thousandths and the dominant biome
getMaterialAt(h, y, m, biome) ==
    IF y > h THEN Member(MaterialId, "VACUUM")
    ELSE IF y < 0 - 92 THEN Member(MaterialId, "BEDROCK")
    ELSE IF h - y > 10 /\ h - y < 18 /\ FracGt(m, 86, 100) THEN Member(MaterialId, "METAL")
    ELSE materialFromId(ConfiguredMaterial(biome, "subsurface"))

(***************************************************************************)
(* The river, ravine and ice factors.  A factor is a number in thousandths *)
(* or NaN; an argument the caller leaves out is Omitted, and arithmetic on *)
(* it gives NaN as arithmetic on undefined does.                           *)
(***************************************************************************)
Num(v) == [nan |-> FALSE, v |-> v]

NaN == [nan |-> TRUE, v |-> 0]

Omitted == [nan |-> TRUE, v |-> 0, omitted |-> TRUE]

\* Math.max(0, Math.min(1, v)), which is NaN for NaN
clamp01N(n) == IF n.nan THEN NaN ELSE Num(clamp01(n.v))

\* getRiverFactor, from the value of the river field
getRiverFactor(field) ==
    LET d == IF field < 0 THEN 0 - field ELSE field
        river == clamp01(One - (d * 100) \div 28)
    IN  Num((river * river) \div One)

\* getRavineFactor, from the value of the ravine field
getRavineFactor(f) ==
    LET d == IF f < 0 THEN 0 - f ELSE f
        rav == clamp01(One - (d * 100) \div 10)
    IN  Num((rav * rav) \div One)

\* worldConfig.ice, with the values the revision without worldConfig.json has
\* as literals
IceCfg ==
    [latScale |-> 750, coldLatWeight |-> 700, coldNoiseWeight |-> 350,
     elevStart |-> 12, elevRange |-> 50]

\* getIceFactor(x, z, h), from z, the cold noise (fbm + 1) * 0.5 in thousandths
\* and h, a Num of world units or Omitted
getIceFactor(z, coldNoise, h) ==
    LET cfg == IceCfg
        lat == clamp01(((IF z < 0 THEN 0 - z ELSE z) * One) \div cfg.latScale)
        cold == clamp01((lat * cfg.coldLatWeight) \div One
                            + (coldNoise * cfg.coldNoiseWeight) \div One)
        elev == clamp01N(IF h.nan THEN NaN
                         ELSE Num(((h.v - cfg.elevStart) * One) \div cfg.elevRange))
    IN  clamp01N(IF elev.nan THEN NaN
                 ELSE Num((cold * (450 + (550 * elev.v) \div One)) \div One))

(***************************************************************************)
(* The colour of an object block in the chunk builder (src/world/Chunk.js) *)
(* over the palette of src/world/objects.js.  A value is a Color3, a plain *)
(* object with the keys r, g, b, or undefined; a channel is in hundredths. *)
(***************************************************************************)
Color3(r, g, b) == [kind |-> "Color3", rgb |-> <<r, g, b>>, finite |-> TRUE]

UndefinedValue == [kind |-> "undefined", rgb |-> <<>>, finite |-> FALSE]

getTreeColors ==
    [beacon |-> Color3(85, 92, 100),
     glow |-> Color3(35, 95, 85),
     crystal |-> Color3(65, 55, 95),
     crystal2 |-> Color3(30, 85, 95),
     crystalRed |-> Color3(95, 40, 45),
     crystalGreen |-> Color3(40, 85, 55),
     crystalCore |-> Color3(90, 90, 95),
     ruin |-> Color3(78, 80, 84),
     ruinAccent |-> Color3(25, 85, 80),
     ruinDark |-> Color3(35, 38, 42),
     ruinOrnate |-> Color3(82, 75, 55),
     spire |-> Color3(72, 76, 90),
     spireGlow |-> Color3(20, 95, 90),
     spireBase |-> Color3(40, 45, 55),
     spireTop |-> Color3(85, 90, 100),
     iceSpire |-> Color3(65, 80, 100),
     iceCore |-> Color3(85, 95, 100),
     iceDark |-> Color3(45, 60, 85),
     iceAncient |-> Color3(70, 85, 95),
     shrub |-> Color3(35, 55, 40),
     shrubRed |-> Color3(65, 35, 40),
     shrubBlue |-> Color3(35, 45, 65),
     mushroom |-> Color3(65, 35, 55),
     mushroomGlow |-> Color3(85, 55, 75),
     monolith |-> Color3(25, 28, 32),
     monolithGlow |-> Color3(75, 65, 25),
     artifact |-> Color3(60, 65, 70),
     artifactGlow |-> Color3(30, 90, 80)]

\* treeColors[type]
PaletteEntry(treeColors, type) ==
    IF type \in DOMAIN treeColors THEN treeColors[type] ELSE UndefinedValue

\* resolveColor3 that returns the value it is given
resolveColor3NoFallback(val, fallback) == val

resolveColor3(val, fallback) ==
    IF val.kind = "Color3" THEN val
    ELSE IF val.kind = "plain" /\ val.finite THEN Color3(val.rgb[1], val.rgb[2], val.rgb[3])
    ELSE fallback

defaultObjColor == Color3(80, 80, 80)

ruinFallback == resolveColor3(PaletteEntry(getTreeColors, "ruin"), defaultObjColor)

\* (typeof b.type === "string" && b.type.length) ? b.type : "ruin"
BlockType(b) == IF "type" \in DOMAIN b /\ b.type # "" THEN b.type ELSE "ruin"

\* the colour the object loop of _generate pushes for block b
BlockColour(b) == resolveColor3(PaletteEntry(getTreeColors, BlockType(b)), ruinFallback)

(***************************************************************************)
(* The registry built from worldConfig.biomes and the classifier over it   *)
(* (src/world/biomes.js, the revision driven by worldConfig.json).  list   *)
(* is the sequence of the configured biome ids; a score is biomeScore plus *)
(* the jitter, in thousandths.                                             *)
(***************************************************************************)
RegistryOf(list) == [id \in {list[i] : i \in 1..Len(list)} |-> Biomes[id]]

\* the loop without the skip of the overlay biome
RECURSIVE BestFromNoSkip(_, _, _, _, _)
BestFromNoSkip(list, overlay, score, i, best) ==
    IF i > Len(list) THEN best
    ELSE IF score[list[i]] > best[2]
        THEN BestFromNoSkip(list, overlay, score, i + 1, <<list[i], score[list[i]]>>)
    ELSE BestFromNoSkip(list, overlay, score, i + 1, best)

\* the loop of pickTypeForCell from the i-th biome on, best = <<bestId, bestScore>>
RECURSIVE BestFrom(_, _, _, _, _)
BestFrom(list, overlay, score, i, best) ==
    IF i > Len(list) THEN best
    ELSE IF overlay.enabled /\ list[i] = overlay.biomeId
        THEN BestFrom(list, overlay, score, i + 1, best)
    ELSE IF score[list[i]] > best[2]
        THEN BestFrom(list, overlay, score, i + 1, <<list[i], score[list[i]]>>)
    ELSE BestFrom(list, overlay, score, i + 1, best)

\* s = biomeScore(b, c, pocket) + jitter, for every biome of the cell
Jittered(cell) == [id \in DOMAIN cell.score |-> cell.score[id] + cell.jitter]

\* pickTypeForCell over the configured list: cell.pocket says whether the
\* pocket roll exceeds overlay.threshold, cell.score gives every biome's
\* biomeScore, cell.jitter is (r - 0.5) * 0.04
pickTypeFromScores(list, overlay, cell) ==
    IF overlay.enabled /\ cell.pocket /\ overlay.biomeId \in DOMAIN RegistryOf(list)
        THEN overlay.biomeId
    ELSE LET first == IF Len(list) > 0 THEN list[1] ELSE "crystalline_plains"
         IN  CHOOSE type \in
                 {IF FracLt(best[2], 8, 100) THEN "crystalline_plains" ELSE best[1] :
                     best \in {BestFrom(list, overlay, Jittered(cell), 1, <<first, 0 - One>>)}} :
                 TRUE

\* the head of getBiomeWeights for nearest cells of the types a and b: the
\* two registry reads, and the read of .id that throws on undefined
ResolveTwo(reg, a, b) ==
    IF Lookup(reg, a) = UndefinedBiome \/ Lookup(reg, b) = UndefinedBiome
        THEN [error |-> "TypeError", a |-> UndefinedId, b |-> UndefinedId]
    ELSE [error |-> "none", a |-> Lookup(reg, a).id, b |-> Lookup(reg, b).id]

(***************************************************************************)
(* Field queries.  fq holds the one call of a behaviour: the function, its *)
(* inputs and its result.  worldConfig.json is read at load; its mountain  *)
(* section is an input here, with the hard clamp and the knee in ticks.    *)
(***************************************************************************)
HardClamps == {30 * Tick, 64 * Tick}

SoftKnees == {1, KneeFloor, Tick, 12 * Tick}

MountainCfgs ==
    {[baseLift |-> 18, bigAmp |-> 60, medAmp |-> 30, cragAmp |-> 10,
      hardClamp |-> hc, softKnee |-> k] : hc \in HardClamps, k \in SoftKnees}

\* fbm is in [-1, 1] and ridged in [0, 1]: the extremes and the middle
MountainNoise ==
    {[macro |-> m, ridgeA |-> a, ridgeB |-> b, crag |-> c, erode |-> e] :
        m \in {0 - One, One}, a \in {0, One \div 2, One}, b \in {0, One},
        c \in {0, One}, e \in {0 - One, One}}

\* heights around the knee, at the clamp, just above it and far above it
SoftClampInputs(hardMax, knee) ==
    {hardMax - 2 * knee, hardMax - knee, hardMax - knee \div 2, hardMax,
     hardMax + 1, hardMax + KneeFloor \div 2, hardMax + Tick, 3 * hardMax,
     200 * Tick}

\* material ids a biome of biomes.json may name, one of them no MaterialId
ConfiguredIds ==
    {"regolith", "basalt", "anorthosite", "impact_glass", "ice", "metal", "bedrock",
     "obsidian"}

\* a biome with both material keys, with one of them, with an empty
\* materials section and with none
TerrainBiomes ==
    {[id |-> "b", materials |-> [surface |-> s, subsurface |-> s]] : s \in ConfiguredIds}
        \cup {[id |-> "b", materials |-> [surface |-> "basalt"]],
              [id |-> "b", materials |-> [subsurface |-> "basalt"]],
              [id |-> "b"]}

\* column heights: below the bedrock line, near it, around the water level, land
ColumnHeights == {0 - 95, 0 - 80, WATER_LEVEL - 1, WATER_LEVEL, WATER_LEVEL + 1, 20}

\* y above the surface, at it, around the vein band and the bedrock line
ColumnYs(h) == {h + 1, h, h - 10, h - 11, h - 17, h - 18, 0 - 92, 0 - 93}

VeinNoise == {0, 860, 861, One}

IceFactors == {0, 580, 581, One}

\* worldConfig.biomes: without the default biome, with it, with the overlay biome
BiomeLists ==
    {<<"crimson_desert", "fungal_marsh">>,
     <<"crystalline_plains", "crimson_desert">>,
     <<"crimson_desert", "crystalline_plains", "ancient_ruins">>}

\* worldConfig.ruinsOverlay
Overlays == {[enabled |-> on, biomeId |-> "ancient_ruins"] : on \in BOOLEAN}

\* scores below the floor of 0.08, at it and well above it
CellScores == {0, 79, 80, 500}

\* (r - 0.5) * 0.04 for r = 0, 0.5 and 1
Jitters == {0 - 20, 0, 20}

\* what the hashes and the climate give for one cell
CellRolls(list) ==
    {[pocket |-> p, score |-> sc, jitter |-> j] :
        p \in BOOLEAN, sc \in [{list[i] : i \in 1..Len(list)} -> CellScores],
        j \in Jitters}

\* values of an fbm field, in [-1, 1]
FieldValues == {0 - One, 0 - 280, 0 - 100, 0 - 50, 0, 50, 100, 140, 280, One}

\* z of the column: the equator, mid latitudes, beyond latScale
Latitudes == {0, 0 - 300, 750, 0 - 2000}

ColdNoise == {0, One \div 2, One}

\* the height argument of getIceFactor: terrain.js and objects.js pass the
\* height of the column, Chunk.js passes nothing
IceHeights == {Num(h) : h \in {0 - 20, 12, 40, 62, 90}} \cup {Omitted}

\* the block types the generators of objects.js push
GeneratedTypes ==
    {"artifactGlow", "beacon", "crystal", "crystal2", "crystalCore", "glow", "iceCore",
     "iceSpire", "monolith", "monolithGlow", "mushroom", "mushroomGlow", "ruin",
     "ruinAccent", "ruinDark", "ruinOrnate", "shrub", "shrubRed", "spire", "spireBase",
     "spireGlow", "spireTop", "tree_canopy", "tree_trunk"}

\* blocks of every generated type, of an empty type and without a type
ObjectBlocks ==
    {[y |-> y, type |-> t] : y \in {1, 2}, t \in GeneratedTypes \cup {""}}
        \cup {[y |-> y] : y \in {1, 2}}

\* squared distances of the nine feature points in the order of the scan:
\* the three nearest at any three places, in any order, or two equally near
ScanDistances ==
    {[n \in 1..9 |-> IF n = i THEN 1 ELSE IF n = j THEN 2 ELSE IF n = k THEN 3 ELSE 9] :
        i \in 1..9, j \in 1..9, k \in 1..9}
        \cup {[n \in 1..9 |-> IF n = i \/ n = j THEN 1 ELSE 9] : i \in 1..9, j \in 1..9}

NoQuery == [fn |-> "none", in |-> <<>>, out |-> <<>>]

Query(fn, in, out) == [fn |-> fn, in |-> in, out |-> out]

\* no query made yet: each behaviour makes one
Idle == fq.fn = "none"

InitField ==
    /\ fq = NoQuery
    /\ hq = <<>>
    /\ tree = <<>>
    /\ bio = <<>>
    /\ wd = <<>>
    /\ pw = <<>>
    /\ ck = <<>>

SoftClampCall ==
    /\ Idle
    /\ \E hardMax \in HardClamps, knee \in SoftKnees :
         \E v \in SoftClampInputs(hardMax, knee) :
            fq' = Query("softClamp", [v |-> v, hardMax |-> hardMax, knee |-> knee],
                        softClamp(v, hardMax, knee))
    /\ UNCHANGED <<hq, tree, bio, wd, pw, ck>>

HeightMountainsCall ==
    /\ Idle
    /\ \E cfg \in MountainCfgs, nz \in MountainNoise :
         fq' = Query("heightMountains", [cfg |-> cfg, nz |-> nz], heightMountains(cfg, nz))
    /\ UNCHANGED <<hq, tree, bio, wd, pw, ck>>

GetSurfaceMaterialCall ==
    /\ Idle
    /\ \E h \in ColumnHeights, ice \in IceFactors, biome \in TerrainBiomes :
         fq' = Query("getSurfaceMaterial", [h |-> h, ice |-> ice, biome |-> biome],
                     getSurfaceMaterial(h, ice, biome))
    /\ UNCHANGED <<hq, tree, bio, wd, pw, ck>>

GetMaterialAtCall ==
    /\ Idle
    /\ \E h \in ColumnHeights, m \in VeinNoise, biome \in TerrainBiomes :
         \E y \in ColumnYs(h) :
            fq' = Query("getMaterialAt", [h |-> h, y |-> y, m |-> m, biome |-> biome],
                        getMaterialAt(h, y, m, biome))
    /\ UNCHANGED <<hq, tree, bio, wd, pw, ck>>

GetBiomeWeightsCall ==
    /\ Idle
    /\ \E list \in BiomeLists, overlay \in Overlays :
         \E ca \in CellRolls(list), cb \in CellRolls(list) :
            \E a \in {pickTypeFromScores(list, overlay, ca)},
               b \in {pickTypeFromScores(list, overlay, cb)} :
               fq' = Query("getBiomeWeights",
                           [list |-> list, overlay |-> overlay, a |-> a, b |-> b],
                           ResolveTwo(RegistryOf(list), a, b))
    /\ UNCHANGED <<hq, tree, bio, wd, pw, ck>>

GetRiverFactorCall ==
    /\ Idle
    /\ \E field \in FieldValues :
         fq' = Query("getRiverFactor", [field |-> field], getRiverFactor(field))
    /\ UNCHANGED <<hq, tree, bio, wd, pw, ck>>

GetRavineFactorCall ==
    /\ Idle
    /\ \E f \in FieldValues :
         fq' = Query("getRavineFactor", [f |-> f], getRavineFactor(f))
    /\ UNCHANGED <<hq, tree, bio, wd, pw, ck>>

GetIceFactorCall ==
    /\ Idle
    /\ \E z \in Latitudes, coldNoise \in ColdNoise, h \in IceHeights :
         fq' = Query("getIceFactor", [z |-> z, coldNoise |-> coldNoise, h |-> h],
                     getIceFactor(z, coldNoise, h))
    /\ UNCHANGED <<hq, tree, bio, wd, pw, ck>>

\* one block of the object loop of Chunk._generate
ColourBlock ==
    /\ Idle
    /\ \E b \in ObjectBlocks :
         fq' = Query("colourBlock", [b |-> b], BlockColour(b))
    /\ UNCHANGED <<hq, tree, bio, wd, pw, ck>>

PickTypeForCellCall ==
    /\ Idle
    /\ \E list \in BiomeLists, overlay \in Overlays :
         \E cell \in CellRolls(list) :
            fq' = Query("pickTypeForCell", [list |-> list, overlay |-> overlay, cell |-> cell],
                        pickTypeFromScores(list, overlay, cell))
    /\ UNCHANGED <<hq, tree, bio, wd, pw, ck>>

\* pickTypeForCell on the cells that have the same biome scores and pocket
\* roll and every jitter: the set of the ids returned
PickTypeAcrossJitters ==
    /\ Idle
    /\ \E list \in BiomeLists, overlay \in Overlays :
         \E cell \in CellRolls(list) :
            fq' = Query("pickTypeForCells",
                        [list |-> list, overlay |-> overlay, pocket |-> cell.pocket,
                         score |-> cell.score],
                        {pickTypeFromScores(list, overlay, [cell EXCEPT !.jitter = j]) :
                            j \in Jitters})
    /\ UNCHANGED <<hq, tree, bio, wd, pw, ck>>

\* stand-ins for pickTypeForCell of the nine cells, one name per cell
CellNames == <<"c1", "c2", "c3", "c4", "c5", "c6", "c7", "c8", "c9">>

\* the scan of nearestTwoCells, the type of a candidate naming its cell
NearestTwoCellsCall ==
    /\ Idle
    /\ \E d \in ScanDistances :
         fq' = Query("nearestTwoCells", [d |-> d],
                     ScanAll([n \in 1..9 |-> [type |-> CellNames[n], d2 |-> d[n]]]))
    /\ UNCHANGED <<hq, tree, bio, wd, pw, ck>>

NextField ==
    \/ SoftClampCall
    \/ HeightMountainsCall
    \/ GetSurfaceMaterialCall
    \/ GetMaterialAtCall
    \/ GetBiomeWeightsCall
    \/ GetRiverFactorCall
    \/ GetRavineFactorCall
    \/ GetIceFactorCall
    \/ ColourBlock
    \/ PickTypeForCellCall
    \/ PickTypeAcrossJitters
    \/ NearestTwoCellsCall

SpecField == InitField /\ [][NextField]_vars

\* C14: for noise values within their ranges and every positive softKnee,
\* heightMountains returns at most mountain.hardClamp, and softClamp(v,
\* hardMax, knee) returns at most hardMax for every v.
C14_NeverAboveHardClamp ==
    /\ (fq # <<>> /\ fq.fn = "heightMountains") => fq.out <= fq.in.cfg.hardClamp
    /\ (fq # <<>> /\ fq.fn = "softClamp") => fq.out <= fq.in.hardMax

\* the bound holds from a knee of 1e-6 on, where the divisor is the knee
SoftClampBoundedFromKneeFloor ==
    /\ (fq # <<>> /\ fq.fn = "heightMountains" /\ fq.in.cfg.softKnee >= KneeFloor) =>
            fq.out <= fq.in.cfg.hardClamp
    /\ (fq # <<>> /\ fq.fn = "softClamp" /\ fq.in.knee >= KneeFloor) =>
            fq.out <= fq.in.hardMax

\* a raw mountain height of more than twice the clamp, clamped
MountainFarAboveClamped ==
    /\ fq # <<>> /\ fq.fn = "heightMountains"
    /\ MountainRaw(fq.in.cfg, fq.in.nz) * (Tick \div One) > 2 * fq.in.cfg.hardClamp
    /\ fq.out = fq.in.cfg.hardClamp

C16_ReturnsMaterialId ==
    (fq # <<>> /\ fq.fn \in {"getSurfaceMaterial", "getMaterialAt"}) =>
        fq.out \in MaterialIds

\* the ids of the registry of a getBiomeWeights call
Registered == {fq.in.list[i] : i \in 1..Len(fq.in.list)}

\* C17: biome lookup never fails: when the id classified for one of the two
\* nearest cells is absent from the registry, getBiomeWeights resolves it to
\* the default biome and returns valid biome records instead of raising an
\* error.
C17_LookupNeverFails ==
    (fq # <<>> /\ fq.fn = "getBiomeWeights") =>
        /\ fq.out.error = "none"
        /\ fq.out.a \in Registered /\ fq.out.b \in Registered
        /\ fq.in.a \notin Registered => fq.out.a = "crystalline_plains"
        /\ fq.in.b \notin Registered => fq.out.b = "crystalline_plains"

\* with the default biome in the registry every classified id is registered,
\* and the lookup returns its record
LookupSafeWithDefault ==
    (fq # <<>> /\ fq.fn = "getBiomeWeights" /\ "crystalline_plains" \in Registered) =>
        /\ fq.in.a \in Registered /\ fq.in.b \in Registered
        /\ fq.out = [error |-> "none", a |-> fq.in.a, b |-> fq.in.b]

\* C18: getRiverFactor, getRavineFactor and getIceFactor each return a scalar
\* in [0, 1], getIceFactor also when it is called without the height, as the
\* chunk builder calls it for the ice sheet.
C18_FactorsInUnitRange ==
    (fq # <<>> /\ fq.fn \in {"getRiverFactor", "getRavineFactor", "getIceFactor"}) =>
        /\ ~fq.out.nan
        /\ 0 <= fq.out.v /\ fq.out.v <= One

\* with the height passed the three factors are in [0, 1]
FactorsInUnitRangeWithHeight ==
    (/\ fq # <<>> /\ fq.fn \in {"getRiverFactor", "getRavineFactor", "getIceFactor"}
     /\ fq.fn = "getIceFactor" => fq.in.h \in {Num(h) : h \in 0 - 20 .. 90}) =>
        /\ ~fq.out.nan
        /\ 0 <= fq.out.v /\ fq.out.v <= One

\* C20: for every block of getTreeAt the chunk builder resolves a valid RGB
\* colour: the palette entry of the block's type when there is one, otherwise
\* the fallback colour, also for types without an entry (tree_trunk,
\* tree_canopy) and for a missing or empty type.
C20_BlockColourResolved ==
    (fq # <<>> /\ fq.fn = "colourBlock") =>
        LET b == fq.in.b
            typed == "type" \in DOMAIN b /\ b.type # ""
        IN  /\ fq.out.kind = "Color3"
            /\ \A ch \in 1..3 : fq.out.rgb[ch] \in 0..100
            /\ (typed /\ b.type \in DOMAIN getTreeColors) => fq.out = getTreeColors[b.type]
            /\ (~typed \/ b.type \notin DOMAIN getTreeColors) => fq.out = getTreeColors.ruin

\* a block of a type without a palette entry, coloured with the fallback
C20_Witness ==
    /\ fq # <<>> /\ fq.fn = "colourBlock"
    /\ "type" \in DOMAIN fq.in.b
    /\ fq.in.b.type \in {"tree_trunk", "tree_canopy"}
    /\ fq.out = ruinFallback

\* the biomes the loop of a pickTypeForCell call scores
Candidates ==
    {fq.in.list[i] : i \in 1..Len(fq.in.list)}
        \ (IF fq.in.overlay.enabled THEN {fq.in.overlay.biomeId} ELSE {})

\* whether the overlay of a pickTypeForCell call is triggered
OverlayTriggered(pocket) ==
    /\ fq.in.overlay.enabled /\ pocket
    /\ fq.in.overlay.biomeId \in {fq.in.list[i] : i \in 1..Len(fq.in.list)}

\* C21: without the overlay triggered pickTypeForCell returns a candidate of
\* the greatest biomeScore + jitter among the non-overlay biomes, or
\* "crystalline_plains" when that greatest value is below 0.08; the overlay
\* biome is returned exactly when the overlay roll exceeds its threshold.
C21_PicksGreatestScore ==
    (fq # <<>> /\ fq.fn = "pickTypeForCell") =>
        LET s == [id \in Candidates |-> fq.in.cell.score[id] + fq.in.cell.jitter]
            low == \A id \in Candidates : s[id] < 80
        IN  /\ OverlayTriggered(fq.in.cell.pocket) => fq.out = fq.in.overlay.biomeId
            /\ (~OverlayTriggered(fq.in.cell.pocket) /\ low) => fq.out = "crystalline_plains"
            /\ (~OverlayTriggered(fq.in.cell.pocket) /\ ~low) =>
                    /\ fq.out \in Candidates
                    /\ \A id \in Candidates : s[id] <= s[fq.out]
            /\ (fq.in.overlay.enabled /\ fq.out = fq.in.overlay.biomeId) =>
                    OverlayTriggered(fq.in.cell.pocket)

\* the overlay biome has the greatest score, the overlay is enabled and its
\* roll fails: another biome is returned
C21_Witness ==
    /\ fq # <<>> /\ fq.fn = "pickTypeForCell"
    /\ fq.in.overlay.enabled /\ ~fq.in.cell.pocket
    /\ fq.in.overlay.biomeId \in DOMAIN fq.in.cell.score
    /\ \A id \in Candidates : fq.in.cell.score[id] < fq.in.cell.score[fq.in.overlay.biomeId]
    /\ fq.out \in Candidates
    /\ fq.out # "crystalline_plains"

\* the candidates of the greatest biomeScore
Tied == {id \in Candidates : \A other \in Candidates : fq.in.score[other] <= fq.in.score[id]}

\* C22: when two candidates have exactly equal biomeScore in a cell, the
\* cell's jitter decides which of them wins, so that the winner differs
\* between cells of different jitter.
C22_JitterBreaksTies ==
    (/\ fq # <<>> /\ fq.fn = "pickTypeForCells"
     /\ ~OverlayTriggered(fq.in.pocket)
     /\ Cardinality(Tied) >= 2
     /\ \A id \in Tied : fq.in.score[id] >= 80 + 20) =>
        Cardinality(fq.out \cap Tied) >= 2

\* on cells of equal top scores the first of them in the registry wins for
\* every jitter
TieGoesToRegistryOrder ==
    (/\ fq # <<>> /\ fq.fn = "pickTypeForCells"
     /\ ~OverlayTriggered(fq.in.pocket)
     /\ Cardinality(Tied) >= 2
     /\ \A id \in Tied : fq.in.score[id] >= 80 + 20) =>
        \E i \in 1..Len(fq.in.list) :
            /\ fq.out = {fq.in.list[i]}
            /\ fq.in.list[i] \in Tied
            /\ \A j \in 1..(i - 1) : fq.in.list[j] \notin Tied

\* C23: nearestTwoCells returns the feature point of the smallest squared
\* distance first and the one of the second-smallest second, each with the
\* type of its own cell, for every order of the distances.
C23_NearestTwoInOrder ==
    (fq # <<>> /\ fq.fn = "nearestTwoCells") =>
        LET d == fq.in.d
            a == fq.out[1]
            b == fq.out[2]
        IN  \E i \in 1..9, j \in 1..9 :
                /\ i # j
                /\ a = [type |-> CellNames[i], d2 |-> d[i]]
                /\ b = [type |-> CellNames[j], d2 |-> d[j]]
                /\ a.d2 <= b.d2
                /\ \A n \in 1..9 : a.d2 <= d[n]
                /\ \A n \in (1..9) \ {i} : b.d2 <= d[n]

\* the nearest point is scanned last and the second-nearest first
C23_Witness ==
    /\ fq # <<>> /\ fq.fn = "nearestTwoCells"
    /\ fq.in.d[9] = 1 /\ fq.in.d[1] = 2 /\ fq.in.d[5] = 3
    /\ fq.out[1].type = "c9" /\ fq.out[2].type = "c1"

(***************************************************************************)
(* The radius-streaming World (src/world/World.js, the revisions with a    *)
(* streaming radius) over the Chunk class of src/world/Chunk.js.  wd holds *)
(* the residency map as the set of its keys, the camera's last chunk, how  *)
(* often a chunk of each key was constructed and disposed, the number of   *)
(* update calls and the outcome of the last one.  A call of a method the   *)
(* class does not have throws a TypeError, which ends the update there.    *)
(***************************************************************************)
SIZE == 16

\* the streaming radius, in chunks (8 and 6 in the source)
Radius == 1

MaxMoves == 3

\* the methods of class Chunk
ChunkMethods == {"constructor", "setVisible", "setFade", "_generate"}

\* cameraTargetPos.x and .z
CameraXs == {0 - 17, 0 - 1, 0, 15, 16, 40}

CameraZs == {0, 16}

ChunkKeys == {<<cx, cz>> : cx \in 0 - 2 - Radius .. 2 + Radius, cz \in 0 - Radius .. 1 + Radius}

\* the keys of the square of chunks around chunk (cx, cz)
Needed(cx, cz) == {<<cx + dx, cz + dz>> : dx \in 0 - Radius .. Radius, dz \in 0 - Radius .. Radius}

InitWorld ==
    /\ wd = [chunks |-> {}, last |-> <<>>, created |-> [k \in ChunkKeys |-> 0],
             disposed |-> [k \in ChunkKeys |-> 0], moves |-> 0, error |-> "none"]
    /\ hq = <<>>
    /\ tree = <<>>
    /\ bio = <<>>
    /\ fq = <<>>
    /\ pw = <<>>
    /\ ck = <<>>

\* a World.update that rebuilds the resident chunks although the camera is
\* still in the same chunk
SameChunkRebuild(w) ==
    [w EXCEPT !.moves = @ + 1, !.error = "none",
              !.created = [k \in ChunkKeys |-> @[k] + (IF k \in w.chunks THEN 1 ELSE 0)]]

\* if (cx === this._lastCx && cz === this._lastCz) return;
SameChunkUpdate(w) == [w EXCEPT !.moves = @ + 1, !.error = "none"]

\* World.update(cameraTargetPos)
Update ==
    /\ wd # <<>>
    /\ wd.moves < MaxMoves
    /\ \E x \in CameraXs, z \in CameraZs :
         LET cx == x \div SIZE
             cz == z \div SIZE
             needed == Needed(cx, cz)
             loaded == wd.chunks \cup needed
             stale == loaded \ needed
             built == [k \in ChunkKeys |->
                          wd.created[k] + (IF k \in needed \ wd.chunks THEN 1 ELSE 0)]
         IN  IF <<cx, cz>> = wd.last
                 THEN wd' = SameChunkUpdate(wd)
             ELSE IF stale = {}
                 THEN wd' = [wd EXCEPT !.moves = @ + 1, !.error = "none",
                                       !.last = <<cx, cz>>, !.chunks = loaded,
                                       !.created = built]
             ELSE IF "dispose" \in ChunkMethods
                 THEN wd' = [wd EXCEPT !.moves = @ + 1, !.error = "none",
                                       !.last = <<cx, cz>>, !.chunks = needed,
                                       !.created = built,
                                       !.disposed = [k \in ChunkKeys |->
                                           @[k] + (IF k \in stale THEN 1 ELSE 0)]]
             ELSE wd' = [wd EXCEPT !.moves = @ + 1, !.error = "TypeError",
                                   !.last = <<cx, cz>>, !.chunks = loaded,
                                   !.created = built]
    /\ UNCHANGED <<hq, tree, bio, fq, pw, ck>>

NextWorld == Update

SpecWorld == InitWorld /\ [][NextWorld]_vars

\* C19: after a camera move the chunks out of the streaming range are
\* disposed, each exactly once, and removed from the map, and World.update
\* raises no error, also on moves that unload chunks.
C19_UnloadsOutOfRange ==
    (wd # <<>> /\ wd.last # <<>>) =>
        /\ wd.error = "none"
        /\ wd.chunks = Needed(wd.last[1], wd.last[2])
        /\ \A k \in ChunkKeys :
              wd.created[k] - wd.disposed[k] = (IF k \in wd.chunks THEN 1 ELSE 0)

\* updates that unload nothing raise no error and leave the map as the square
\* around the camera
UpdateWithoutUnloadSucceeds ==
    (wd # <<>> /\ wd.last # <<>> /\ wd.chunks = Needed(wd.last[1], wd.last[2])) =>
        wd.error = "none"

\* C24: after any sequence of updates the keys of the residency map are
\* exactly the (2 * radius + 1)^2 chunk coordinates around the chunk of the
\* most recent camera position: none outside the square, none missing.
C24_ResidentIsSquare ==
    (wd # <<>> /\ wd.last # <<>>) => wd.chunks = Needed(wd.last[1], wd.last[2])

\* no chunk of the square around the camera is missing, and a coordinate has
\* at most one chunk that was constructed and not disposed
ResidentCoversSquare ==
    (wd # <<>> /\ wd.last # <<>>) =>
        /\ Needed(wd.last[1], wd.last[2]) \subseteq wd.chunks
        /\ \A k \in ChunkKeys : k \in wd.chunks <=> wd.created[k] - wd.disposed[k] = 1

\* C25: an update with the camera in the chunk of the previous update (the
\* one kind of update that leaves the last-camera-chunk record as it was)
\* constructs no chunk, disposes none and leaves the residency map unchanged.
C25_SameChunkIsNoOp ==
    [][(wd # <<>> /\ wd.last # <<>> /\ wd'.last = wd.last) =>
            /\ wd'.chunks = wd.chunks
            /\ wd'.created = wd.created
            /\ wd'.disposed = wd.disposed]_vars

\* two updates, the second in the chunk of the first: nine chunks constructed
C25_Witness ==
    /\ wd # <<>> /\ wd.moves = 2 /\ wd.last = <<0, 0>>
    /\ wd.chunks = Needed(0, 0)
    /\ \A k \in ChunkKeys : wd.created[k] = (IF k \in Needed(0, 0) THEN 1 ELSE 0)

\* every update that changes the last-camera-chunk record sets it to a chunk
\* other than the previous one: only a camera in the same chunk leaves it
CrossingChangesRecord ==
    [][(wd # <<>> /\ wd'.chunks # wd.chunks) => wd'.last # wd.last]_vars

(***************************************************************************)
(* The chunk's fade (src/world/Chunk.js).  A fade and the visibility of    *)
(* the surface mesh are in thousandths; the visibility of the water mesh,  *)
(* 0.92 of the fade, is in hundred-thousandths.                            *)
(***************************************************************************)
\* a chunk after its constructor: _fade = 1 and the two meshes of
\* _generate, shown and of full visibility
NewChunk ==
    [fade |-> One, isVisible |-> TRUE, visibility |-> One,
     waterVisible |-> TRUE, waterVisibility |-> One * 100]

\* a setFade that returns early only on a request equal to the stored fade
setFadeNoThreshold(c, f) ==
    LET ff == clamp01(f)
    IN  IF ff = c.fade THEN c
        ELSE [fade |-> ff, isVisible |-> ff > 20, visibility |-> ff,
              waterVisible |-> ff * 92 > 20 * 100, waterVisibility |-> ff * 92]

\* Chunk.setFade(f)
setFade(c, f) ==
    LET ff == clamp01(f)
        diff == IF ff >= c.fade THEN ff - c.fade ELSE c.fade - ff
    IN  IF diff < 10 THEN c
        ELSE [fade |-> ff, isVisible |-> ff > 20, visibility |-> ff,
              waterVisible |-> ff * 92 > 20 * 100, waterVisibility |-> ff * 92]

(***************************************************************************)
(* The bounded-plate World (src/world/World.js, the revision that creates  *)
(* a fixed plate of chunks in spiral order).  pw holds the fields of the   *)
(* World: the creation queue, the chunk map (coordinate to chunk), the     *)
(* counters, the budgets, the bootstrap time left in milliseconds and the  *)
(* vision cache (a tuple for the string, empty for ""); and what was called *)
(* last, with its argument.  An option of the constructor is in tenths; a   *)
(* key the options lack is undefined.                                      *)
(***************************************************************************)
SpiralStepCap == 10000

\* a bounds test that leaves cz unchecked
inBoundsXOnly(b, cx, cz) == cx >= b.minCx /\ cx <= b.maxCx

\* inBounds(cx, cz) of buildSpiralCoords
inBounds(b, cx, cz) == cx >= b.minCx /\ cx <= b.maxCx /\ cz >= b.minCz /\ cz <= b.maxCz

\* push(x, z) of buildSpiralCoords; the set seen holds the pushed cells
push(b, coords, x, z) ==
    IF <<x, z>> \notin {coords[i] : i \in 1..Len(coords)} /\ inBounds(b, x, z)
        THEN Append(coords, <<x, z>>)
        ELSE coords

\* for (let i = 0; i < n; i++) { cx += dx; cz += dz; push(cx, cz); }
RECURSIVE SpiralLeg(_, _, _, _, _)
SpiralLeg(b, s, dx, dz, n) ==
    IF n = 0 THEN s
    ELSE CHOOSE r \in {SpiralLeg(b, t, dx, dz, n - 1) :
                        t \in {[coords |-> push(b, s.coords, s.cx + dx, s.cz + dz),
                                cx |-> s.cx + dx, cz |-> s.cz + dz]}} : TRUE

\* the while loop: right and down by step, left and up by step + 1
RECURSIVE SpiralLoop(_, _, _)
SpiralLoop(b, s, step) ==
    IF ~(Len(s.coords) < (b.maxCx - b.minCx + 1) * (b.maxCz - b.minCz + 1)) THEN s.coords
    ELSE CHOOSE r \in
           {IF step + 2 > SpiralStepCap THEN s4.coords ELSE SpiralLoop(b, s4, step + 2) :
              s4 \in {SpiralLeg(b, s3, 0, 0 - 1, step + 1) :
                s3 \in {SpiralLeg(b, s2, 0 - 1, 0, step + 1) :
                  s2 \in {SpiralLeg(b, s1, 0, 1, step) :
                    s1 \in {SpiralLeg(b, s, 1, 0, step)}}}}} : TRUE

Min(a, b) == IF a < b THEN a ELSE b
Max(a, b) == IF a > b THEN a ELSE b

buildSpiralCoords(minCx, maxCx, minCz, maxCz) ==
    LET b == [minCx |-> minCx, maxCx |-> maxCx, minCz |-> minCz, maxCz |-> maxCz]
        cx == IF inBounds(b, 0, 0) THEN 0 ELSE Max(minCx, Min(maxCx, 0))
        cz == IF inBounds(b, 0, 0) THEN 0 ELSE Max(minCz, Min(maxCz, 0))
    IN  CHOOSE r \in {SpiralLoop(b, s, 1) :
                        s \in {[coords |-> push(b, <<>>, cx, cz), cx |-> cx, cz |-> cz]}} : TRUE

\* opts.key ?? dflt, and Math.floor of a number in tenths
Option(opts, key, dflt) == IF key \in DOMAIN opts THEN opts[key] ELSE dflt
Floor10(v) == v \div 10

\* the side of the plate, in chunks
sizeChunks(opts) ==
    LET size == Max(9, Floor10(Option(opts, "sizeChunks", 250)))
    IN  IF size % 2 = 0 THEN size + 1 ELSE size

\* new World(scene, opts)
NewWorld(opts) ==
    LET half == sizeChunks(opts) \div 2
    IN  CHOOSE w \in
          {[sizeChunks |-> sizeChunks(opts),
            minCx |-> 0 - half, maxCx |-> half, minCz |-> 0 - half, maxCz |-> half,
            chunks |-> <<>>,
            createdChunks |-> 0,
            pendingCreates |-> pending,
            totalChunks |-> Len(pending),
            budgetBoot |-> Max(1, Floor10(Option(opts, "budgetBoot", 480))),
            budgetSteady |-> Max(1, Floor10(Option(opts, "budgetSteady", 100))),
            bootstrapSeconds |-> 1800,
            visHash |-> <<>>,
            op |-> "new", arg |-> <<>>, idle |-> 0, vision |-> 0] :
              pending \in {buildSpiralCoords(0 - half, half, 0 - half, half)}} : TRUE

\* an update that constructs the chunk and leaves createdChunks as it was
createChunkUncounted(w, next) ==
    [w EXCEPT !.chunks = (next :> NewChunk) @@ w.chunks]

\* const ch = new Chunk(next.cx, next.cz, this.scene);
\* this.chunks.set(key, ch); this.createdChunks++;
createChunk(w, next) ==
    [w EXCEPT !.chunks = (next :> NewChunk) @@ w.chunks, !.createdChunks = @ + 1]

\* a creation loop that never stops at the budget
CreateLoopUnbudgeted(w, i, budget) ==
    [w EXCEPT !.chunks = [k \in DOMAIN w.chunks \cup
                                {w.pendingCreates[n] : n \in 1..Len(w.pendingCreates)} |->
                              IF k \in DOMAIN w.chunks THEN w.chunks[k] ELSE NewChunk],
              !.createdChunks = @ + Len(w.pendingCreates),
              !.pendingCreates = <<>>]

\* for (let i = 0; i < budget && this._pendingCreates.length > 0; i++)
RECURSIVE CreateLoop(_, _, _)
CreateLoop(w, i, budget) ==
    IF ~(i < budget /\ Len(w.pendingCreates) > 0) THEN w
    ELSE CHOOSE r \in
           {CreateLoop(v, i + 1, budget) :
              v \in {IF Head(w.pendingCreates) \in DOMAIN w.chunks
                         THEN [w EXCEPT !.pendingCreates = Tail(@)]
                         ELSE createChunk([w EXCEPT !.pendingCreates = Tail(@)],
                                          Head(w.pendingCreates))}} : TRUE

\* the budget of an update that leaves the bootstrap time at seconds
Budget(w, seconds) == IF seconds > 0 THEN w.budgetBoot ELSE w.budgetSteady

\* World.update(dt), dt in milliseconds
update(w, dt) ==
    IF Len(w.pendingCreates) = 0
        THEN [w EXCEPT !.op = "update", !.arg = dt, !.idle = @ + 1]
    ELSE CHOOSE r \in
           {CreateLoop([w EXCEPT !.op = "update", !.arg = dt, !.bootstrapSeconds = left],
                       0, Budget(w, left)) :
              left \in {Max(0, w.bootstrapSeconds - dt)}} : TRUE

\* get progress(), in thousandths
progress(w) ==
    IF w.totalChunks <= 0 THEN One
    ELSE Max(0, Min(One, (w.createdChunks * One) \div w.totalChunks))

\* get isReady()
isReady(w) == Len(w.pendingCreates) = 0

\* the idle updates of a behaviour, after the plate is ready
MaxIdle == 2

\* the options of the constructor, in tenths: none; a plate of 3 (raised to
\* 9) with budgets of 0 (raised to 1); a plate of 10 (made odd) with budgets
\* of 12.5 and 4.5; a plate of 9.5 with a steady budget above the boot budget
PlateOptions ==
    {<<>>,
     [sizeChunks |-> 30, budgetBoot |-> 0, budgetSteady |-> 0],
     [sizeChunks |-> 100, budgetBoot |-> 125, budgetSteady |-> 45],
     [sizeChunks |-> 95, budgetBoot |-> 20, budgetSteady |-> 70]}

\* dt of an update, in milliseconds: the default and the rest of the
\* bootstrap time and more
DtValues == {16, 900}

InitPlate ==
    /\ pw \in {NewWorld(opts) : opts \in PlateOptions}
    /\ hq = <<>>
    /\ tree = <<>>
    /\ bio = <<>>
    /\ fq = <<>>
    /\ wd = <<>>
    /\ ck = <<>>

UpdatePlate ==
    /\ pw # <<>>
    /\ Len(pw.pendingCreates) > 0 \/ pw.idle < MaxIdle
    /\ \E dt \in DtValues : pw' = update(pw, dt)
    /\ UNCHANGED <<hq, tree, bio, fq, wd, ck>>

NextPlate == UpdatePlate

SpecPlate == InitPlate /\ [][NextPlate]_vars

\* under repeated update calls
SpecPlateFair == SpecPlate /\ WF_vars(UpdatePlate)

\* the coordinates of the plate
PlateCoords(w) == {<<cx, cz>> : cx \in w.minCx .. w.maxCx, cz \in w.minCz .. w.maxCz}

\* C28: buildSpiralCoords returns every chunk coordinate within the bounds
\* exactly once (as many as the plate has cells, none twice, none out of
\* bounds), beginning with (0, 0), for the bounds of every constructed World:
\* symmetric, of an odd side of 9 or more.
C28_SpiralCoversPlateOnce ==
    (pw # <<>> /\ pw.op = "new") =>
        LET coords == pw.pendingCreates
        IN  /\ pw.sizeChunks >= 9 /\ pw.sizeChunks % 2 = 1
            /\ pw.minCx = 0 - pw.maxCx /\ pw.minCz = 0 - pw.maxCz
            /\ pw.maxCx - pw.minCx + 1 = pw.sizeChunks
            /\ pw.maxCz - pw.minCz + 1 = pw.sizeChunks
            /\ Len(coords) = pw.sizeChunks * pw.sizeChunks
            /\ \A i \in 1..Len(coords), j \in 1..Len(coords) : coords[i] = coords[j] => i = j
            /\ {coords[i] : i \in 1..Len(coords)} = PlateCoords(pw)
            /\ coords[1] = <<0, 0>>

\* the plate of side 11: the spiral starts at the centre, goes right and then
\* down, and ends in the row of least cz
C28_Witness ==
    /\ pw # <<>> /\ pw.op = "new" /\ pw.sizeChunks = 11
    /\ Len(pw.pendingCreates) = 121
    /\ pw.pendingCreates[1] = <<0, 0>>
    /\ pw.pendingCreates[2] = <<1, 0>>
    /\ pw.pendingCreates[3] = <<1, 1>>
    /\ pw.pendingCreates[121] = <<5, 0 - 5>>

\* the counters of a World agree with its queue and its map
CountersAgree(w) ==
    /\ w.createdChunks + Len(w.pendingCreates) = w.totalChunks
    /\ w.createdChunks = Cardinality(DOMAIN w.chunks)
    /\ progress(w) >= 0 /\ progress(w) <= One
    /\ isReady(w) <=> progress(w) = One

\* C26: after any sequence of update(dt) calls createdChunks +
\* pendingCreates.length = totalChunks, createdChunks is the number of chunks
\* in the map, progress is within [0, 1] and never decreases, and isReady
\* holds exactly when progress = 1.
C26_PlateCounters ==
    /\ [](pw # <<>> => CountersAgree(pw))
    /\ [][pw # <<>> => progress(pw') >= progress(pw)]_vars

\* the default World after its first update: 48 of 625 chunks
C26_Witness ==
    /\ pw # <<>> /\ pw.op = "update"
    /\ pw.createdChunks = 48 /\ Len(pw.pendingCreates) = 577 /\ pw.totalChunks = 625
    /\ Cardinality(DOMAIN pw.chunks) = 48
    /\ progress(pw) = 76 /\ ~isReady(pw)

\* the plate is complete: the queue is empty and every coordinate of the
\* plate has its chunk, each constructed once
PlateComplete(w) ==
    /\ isReady(w)
    /\ DOMAIN w.chunks = PlateCoords(w)
    /\ w.createdChunks = Cardinality(PlateCoords(w))

\* C27: an update creates at most its budget of chunks (budgetBoot when the
\* bootstrap time it leaves is above 0, budgetSteady otherwise) and at least
\* one while chunks are pending; under repeated updates the plate becomes
\* and stays ready with every coordinate created exactly once; an update of
\* a ready plate creates nothing and changes no field of the World.
C27_ReadyWithinBudget ==
    /\ [][(pw # <<>> /\ pw'.op = "update") =>
             /\ pw'.createdChunks - pw.createdChunks <= Budget(pw', pw'.bootstrapSeconds)
             /\ Len(pw.pendingCreates) > 0 => pw'.createdChunks - pw.createdChunks >= 1
             /\ isReady(pw) =>
                  pw' = [pw EXCEPT !.op = "update", !.arg = pw'.arg, !.idle = pw'.idle]]_vars
    /\ <>[](pw # <<>> /\ PlateComplete(pw))

\* the plate of side 11 with budgets 12 and 4, complete, after one more update
C27_Witness ==
    /\ pw # <<>> /\ pw.op = "update" /\ pw.idle = 1
    /\ pw.budgetBoot = 12 /\ pw.budgetSteady = 4 /\ pw.bootstrapSeconds = 0
    /\ PlateComplete(pw) /\ pw.createdChunks = 121

(***************************************************************************)
(* World.applyVisionLights.  A light's x, z and r and every distance are   *)
(* in tenths of a world unit, innerMul and outerMul in thousandths, a fade *)
(* in thousandths.                                                         *)
(***************************************************************************)
\* v | 0 of a number in tenths
TruncInt(v) == IF v >= 0 THEN v \div 10 ELSE 0 - ((0 - v) \div 10)

\* toFixed(2) of a multiplier in thousandths: the hundredths
toFixed2(v) == (v + 5) \div 10

innerMulOf(options) == Option(options, "innerMul", 700)
outerMulOf(options) == Option(options, "outerMul", 1220)

\* the string h, as the tuple of its parts
VisionHash(lights, options) ==
    <<toFixed2(innerMulOf(options)), toFixed2(outerMulOf(options)),
      [i \in 1..Len(lights) |->
          <<TruncInt(lights[i].x), TruncInt(lights[i].z), TruncInt(lights[i].r)>>]>>

\* one light on the chunk of key k: whether the chunk is within the inner
\* radius, and the fade of the band otherwise
LightFade(L, options, k) ==
    LET x0 == k[1] * SIZE * Unit
        z0 == k[2] * SIZE * Unit
        x1 == x0 + SIZE * Unit
        z1 == z0 + SIZE * Unit
        inner == Max(Unit, (L.r * innerMulOf(options)) \div One)
        outer == Max(inner + Unit, (L.r * outerMulOf(options)) \div One)
        dx == IF L.x < x0 THEN x0 - L.x ELSE IF L.x > x1 THEN L.x - x1 ELSE 0
        dz == IF L.z < z0 THEN z0 - L.z ELSE IF L.z > z1 THEN L.z - z1 ELSE 0
        d2 == dx * dx + dz * dz
    IN  IF d2 <= inner * inner THEN [within |-> TRUE, fade |-> One]
        ELSE IF d2 < outer * outer
            THEN [within |-> FALSE,
                  fade |-> One - smooth01(((SqrtSearch(d2, 0, outer) - inner) * One)
                                              \div (outer - inner))]
        ELSE [within |-> FALSE, fade |-> 0]

\* the loop over the lights: bestFade of the chunk of key k
RECURSIVE bestFade(_, _, _, _, _)
bestFade(lights, options, k, i, best) ==
    IF i > Len(lights) THEN best
    ELSE CHOOSE r \in {IF f.within THEN One
                       ELSE bestFade(lights, options, k, i + 1, Max(best, f.fade)) :
                          f \in {LightFade(lights[i], options, k)}} : TRUE

\* World.applyVisionLights(lights, options)
applyVisionLights(w, lights, options) ==
    LET v == [w EXCEPT !.op = "vision", !.vision = @ + 1,
                       !.arg = [lights |-> lights, options |-> options]]
    IN  IF Len(lights) = 0
            THEN [v EXCEPT !.chunks = [k \in DOMAIN w.chunks |-> setFade(w.chunks[k], 0)]]
        ELSE IF VisionHash(lights, options) = w.visHash THEN v
        ELSE [v EXCEPT !.visHash = VisionHash(lights, options),
                       !.chunks = [k \in DOMAIN w.chunks |->
                                      setFade(w.chunks[k], bestFade(lights, options, k, 1, 0))]]

\* the applyVisionLights calls of a behaviour
MaxVision == 3

\* a plate of side 9 created 30 chunks at a time
VisionOptions == {[sizeChunks |-> 90, budgetBoot |-> 300, budgetSteady |-> 300]}

\* the calls: no light; one light of radius 20 at the origin with the
\* multipliers of the scene; the same light 0.9 units further; two lights
\* with the default multipliers
VisionCalls ==
    {[lights |-> <<>>, options |-> <<>>],
     [lights |-> <<[x |-> 0, z |-> 0, r |-> 200]>>,
      options |-> [innerMul |-> 780, outerMul |-> 1450]],
     [lights |-> <<[x |-> 9, z |-> 0, r |-> 200]>>,
      options |-> [innerMul |-> 780, outerMul |-> 1450]],
     [lights |-> <<[x |-> 0 - 400, z |-> 0, r |-> 200], [x |-> 400, z |-> 400, r |-> 300]>>,
      options |-> <<>>]}

InitVision ==
    /\ pw \in {NewWorld(opts) : opts \in VisionOptions}
    /\ hq = <<>>
    /\ tree = <<>>
    /\ bio = <<>>
    /\ fq = <<>>
    /\ wd = <<>>
    /\ ck = <<>>

ApplyVisionLights ==
    /\ pw # <<>>
    /\ pw.vision < MaxVision
    /\ \E call \in VisionCalls : pw' = applyVisionLights(pw, call.lights, call.options)
    /\ UNCHANGED <<hq, tree, bio, fq, wd, ck>>

NextVision == UpdatePlate \/ ApplyVisionLights

SpecVision == InitVision /\ [][NextVision]_vars

\* every resident chunk's stored fade is the fade of the lights of the call,
\* up to the 0.01 within which setFade leaves the stored fade alone
FadesFollow(w, call) ==
    \A k \in DOMAIN w.chunks :
        \E f \in {bestFade(call.lights, call.options, k, 1, 0)} :
            /\ w.chunks[k].fade - f < 10
            /\ f - w.chunks[k].fade < 10

\* C29: after any applyVisionLights call with a light list that is not
\* empty, every resident chunk's fade is the value those lights determine,
\* whatever calls came before (an empty list among them) and whatever chunks
\* were created since.
C29_FadesFollowLights ==
    (pw # <<>> /\ pw.op = "vision" /\ Len(pw.arg.lights) > 0) => FadesFollow(pw, pw.arg)

\* a call whose string h differs from the cached one sets every fade
FadesFollowUncachedLights ==
    [][(pw # <<>> /\ pw'.op = "vision" /\ pw'.vision > pw.vision
            /\ Len(pw'.arg.lights) > 0 /\ pw'.visHash # pw.visHash) =>
          FadesFollow(pw', pw'.arg)]_vars

(***************************************************************************)
(* One chunk under setFade calls.  ck holds the chunk and the last         *)
(* request, in thousandths (NoRequest before the first call).              *)
(***************************************************************************)
NoRequest == 0 - One * One

\* the requests: below 0, above 1, steps of 0.003 around the 0.02 of the
\* visibility test and of 0.005 below 1, and pairs 0.01 apart
FadeRequests ==
    {0 - 500, 10, 20, 21, 500, 505, 510, 1500}
        \cup {3 * n : n \in 0..13} \cup {975 + 5 * n : n \in 0..5}

InitChunk ==
    /\ ck = [chunk |-> NewChunk, request |-> NoRequest]
    /\ hq = <<>>
    /\ tree = <<>>
    /\ bio = <<>>
    /\ fq = <<>>
    /\ wd = <<>>
    /\ pw = <<>>

\* chunk.setFade(f)
SetFadeCall ==
    /\ ck # <<>>
    /\ \E f \in FadeRequests : ck' = [chunk |-> setFade(ck.chunk, f), request |-> f]
    /\ UNCHANGED <<hq, tree, bio, fq, wd, pw>>

NextChunk == SetFadeCall

SpecChunk == InitChunk /\ [][NextChunk]_vars

\* the distance of two fades
FadeGap(a, b) == IF a >= b THEN a - b ELSE b - a

\* C30: after any sequence of setFade calls the stored fade is less than
\* 0.01 from the clamped last request, the surface mesh's visibility is the
\* stored fade and the mesh is shown exactly when the stored fade is above
\* 0.02; a request less than 0.01 from the stored fade changes nothing.
C30_FadeTracksRequest ==
    /\ [](ck # <<>> =>
            /\ ck.request # NoRequest => FadeGap(ck.chunk.fade, clamp01(ck.request)) < 10
            /\ ck.chunk.visibility = ck.chunk.fade
            /\ ck.chunk.isVisible <=> ck.chunk.fade > 20)
    /\ [][(ck # <<>> /\ FadeGap(ck.chunk.fade, clamp01(ck'.request)) < 10) =>
              ck'.chunk = ck.chunk]_vars

\* a stored fade of 0.03, shown, after a request of 0.021 that was left alone
C30_Witness ==
    /\ ck # <<>> /\ ck.request = 21
    /\ ck.chunk.fade = 30 /\ ck.chunk.visibility = 30 /\ ck.chunk.isVisible

====
